---------------------------- MODULE Spec2Model ----------------------------
(***************************************************************************)
(* Model of the template formatter and parser of one-second                *)
(* (formatStr and parse of the format module, src/unnamed/part_003, the    *)
(* same code as src/src/index.ts:180-348).                                 *)
(*                                                                         *)
(* Strings are TLA+ strings; a character is a string of length 1.          *)
(* Positions named pos are 0-based as in the source; Ch and SubSeq are     *)
(* 1-based.  Local time is modelled without a zone offset or DST, so a     *)
(* Date is the record of its local calendar fields.                        *)
(***************************************************************************)
EXTENDS Integers, Sequences, FiniteSets, TLC

(***************************************************************************)
(* Bounds of the model                                                     *)
(***************************************************************************)
\* templates are concatenations of at most MaxPieces pieces
MaxPieces == 2

\* a sequence of calls of the cached functions has at most MaxCalls calls
MaxCalls == 3

\* calls that make objects are made while fewer than MaxObjects Dates exist
MaxObjects == 4

(***************************************************************************)
(* Strings                                                                 *)
(***************************************************************************)
\* the characters of s at the 1-based indices a..b that exist
Slice(s, a, b) ==
  LET lo == IF a < 1 THEN 1 ELSE a
      hi == IF b > Len(s) THEN Len(s) ELSE b
  IN  IF lo > hi THEN "" ELSE SubSeq(s, lo, hi)

Ch(s, i) == Slice(s, i, i)

Min(S) == CHOOSE x \in S : \A y \in S : x <= y

Max(S) == CHOOSE x \in S : \A y \in S : x >= y

\* String.prototype.indexOf: 0-based position of the first occurrence, or -1
RECURSIVE IndexOfFrom(_, _, _)
IndexOfFrom(s, t, p) ==
  IF p + Len(t) > Len(s) THEN -1
  ELSE IF SubSeq(s, p + 1, p + Len(t)) = t THEN p
  ELSE IndexOfFrom(s, t, p + 1)

IndexOf(s, t) == IndexOfFrom(s, t, 0)

\* String.prototype.substring(from) and substring(0, to), 0-based
SubstringFrom(s, from) == Slice(s, from + 1, Len(s))

SubstringTo(s, to) == Slice(s, 1, to)

RECURSIVE Repeat(_, _)
Repeat(c, n) == IF n <= 0 THEN "" ELSE c \o Repeat(c, n - 1)

LowerLetters == "abcdefghijklmnopqrstuvwxyz"

UpperLetters == "ABCDEFGHIJKLMNOPQRSTUVWXYZ"

Digits == "0123456789"

ToLowerCh(c) ==
  LET p == IndexOf(UpperLetters, c)
  IN  IF p = -1 THEN c ELSE Ch(LowerLetters, p + 1)

ToUpperCh(c) ==
  LET p == IndexOf(LowerLetters, c)
  IN  IF p = -1 THEN c ELSE Ch(UpperLetters, p + 1)

RECURSIVE LowerFrom(_, _)
LowerFrom(s, i) ==
  IF i > Len(s) THEN "" ELSE ToLowerCh(SubSeq(s, i, i)) \o LowerFrom(s, i + 1)

toLowerCase(s) == LowerFrom(s, 1)

DigitChars == {"0", "1", "2", "3", "4", "5", "6", "7", "8", "9"}

IsDigit(c) == c \in DigitChars

DigitVal(c) == IndexOf(Digits, c)

(***************************************************************************)
(* Numbers.  NaN is encoded as an integer no computation of the model      *)
(* produces; arithmetic on it yields NaN and every comparison with it is   *)
(* false, as in the source language.                                       *)
(***************************************************************************)
NaN == -1000000000

IsNaN(n) == n = NaN

Plus(a, b) == IF IsNaN(a) \/ IsNaN(b) THEN NaN ELSE a + b

\* a > b and a >= b on numbers that may be NaN
Gt(a, b) == ~IsNaN(a) /\ ~IsNaN(b) /\ a > b

Ge(a, b) == ~IsNaN(a) /\ ~IsNaN(b) /\ a >= b

\* String(n) for an integer n
RECURSIVE NatToString(_)
NatToString(n) ==
  IF n < 10 THEN Ch(Digits, n + 1)
  ELSE NatToString(n \div 10) \o Ch(Digits, (n % 10) + 1)

String(n) ==
  IF IsNaN(n) THEN "NaN"
  ELSE IF n < 0 THEN "-" \o NatToString(-n) ELSE NatToString(n)

\* String.prototype.padStart(len, '0')
padStart(s, len) == Repeat("0", len - Len(s)) \o s

\* String.prototype.slice(-2)
SliceLast2(s) == Slice(s, Len(s) - 1, Len(s))

\* the value of the leading run of decimal digits of s from index i
RECURSIVE DigitsValue(_, _, _)
DigitsValue(s, i, acc) ==
  IF i > Len(s) \/ ~IsDigit(Ch(s, i)) THEN acc
  ELSE DigitsValue(s, i + 1, acc * 10 + DigitVal(Ch(s, i)))

\* parseInt(v, 10); Undefined is the value of a capture group that is absent
Undefined == "undefined"

parseInt(v) ==
  LET neg  == Len(v) > 0 /\ Ch(v, 1) = "-"
      sign == Len(v) > 0 /\ Ch(v, 1) \in {"-", "+"}
      from == IF sign THEN 2 ELSE 1
  IN  IF from > Len(v) \/ ~IsDigit(Ch(v, from)) THEN NaN
      ELSE IF neg THEN -DigitsValue(v, from, 0) ELSE DigitsValue(v, from, 0)

(***************************************************************************)
(* Dates: new Date(y, m, d, h, mi, s, ms) and the getters                  *)
(***************************************************************************)
InvalidDate ==
  [valid |-> FALSE, year |-> NaN, month |-> NaN, date |-> NaN, day |-> NaN,
   hours |-> NaN, minutes |-> NaN, seconds |-> NaN, ms |-> NaN]

\* days since 1970-01-01 of the civil date y-(m+1)-d, m in 0..11
DaysFromCivil(y, m, d) ==
  LET mm  == m + 1
      yy  == IF mm <= 2 THEN y - 1 ELSE y
      era == yy \div 400
      yoe == yy - era * 400
      doy == (153 * (IF mm > 2 THEN mm - 3 ELSE mm + 9) + 2) \div 5 + d - 1
      doe == yoe * 365 + yoe \div 4 - yoe \div 100 + doy
  IN  era * 146097 + doe - 719468

\* the civil date of a day number, month 0-based
CivilFromDays(n) ==
  LET z   == n + 719468
      era == z \div 146097
      doe == z - era * 146097
      yoe == (doe - doe \div 1460 + doe \div 36524 - doe \div 146096) \div 365
      doy == doe - (365 * yoe + yoe \div 4 - yoe \div 100)
      mp  == (5 * doy + 2) \div 153
      d   == doy - (153 * mp + 2) \div 5 + 1
      mm  == IF mp < 10 THEN mp + 3 ELSE mp - 9
      y   == yoe + era * 400 + (IF mm <= 2 THEN 1 ELSE 0)
  IN  [year |-> y, month |-> mm - 1, date |-> d]

MsPerDay == 86400000

\* new Date(year, month, day, hours, minutes, seconds, ms): a NaN argument
\* gives an Invalid Date, a year in 0..99 means 1900 + year, and fields out
\* of range carry into the next larger field
NewDate(year, month, day, hours, minutes, seconds, ms) ==
  IF \E x \in {year, month, day, hours, minutes, seconds, ms} : IsNaN(x)
  THEN InvalidDate
  ELSE
    LET yr    == IF year >= 0 /\ year <= 99 THEN 1900 + year ELSE year
        ym    == yr + month \div 12
        mn    == month % 12
        time  == hours * 3600000 + minutes * 60000 + seconds * 1000 + ms
        days  == DaysFromCivil(ym, mn, 1) + (day - 1) + time \div MsPerDay
        tod   == time % MsPerDay
        civil == CivilFromDays(days)
    IN  [valid |-> TRUE, year |-> civil.year, month |-> civil.month,
         date |-> civil.date, day |-> (days + 4) % 7,
         hours |-> tod \div 3600000, minutes |-> (tod \div 60000) % 60,
         seconds |-> (tod \div 1000) % 60, ms |-> tod % 1000]

\* toDate(input) for a Date input: a copy with the same time value
toDate(input) == input

(***************************************************************************)
(* Time values and date arithmetic.  The time value of a Date is kept as   *)
(* the number of its local day and the milliseconds since its midnight;    *)
(* the local time zone has one offset all year.                            *)
(***************************************************************************)
\* the day number of the local date of d, and the milliseconds of its time
DayNumber(d) == DaysFromCivil(d.year, d.month, d.date)

TimeOfDay(d) == d.hours * 3600000 + d.minutes * 60000 + d.seconds * 1000 + d.ms

\* new Date(time) for the time that is ms milliseconds after the midnight of
\* the day days
DateAt(days, ms) ==
  LET civil == CivilFromDays(days + ms \div MsPerDay)
      tod   == ms % MsPerDay
  IN  [valid |-> TRUE, year |-> civil.year, month |-> civil.month,
       date |-> civil.date, day |-> (days + ms \div MsPerDay + 4) % 7,
       hours |-> tod \div 3600000, minutes |-> (tod \div 60000) % 60,
       seconds |-> (tod \div 1000) % 60, ms |-> tod % 1000]

\* new Date(d.getTime() + days * 24 * 60 * 60 * 1000 + ms)
PlusTime(d, days, ms) ==
  IF ~d.valid THEN InvalidDate ELSE DateAt(DayNumber(d) + days, TimeOfDay(d) + ms)

\* a.getTime() < b.getTime() and a.getTime() === b.getTime(); a comparison
\* with NaN is false
TimeBefore(a, b) ==
  /\ a.valid /\ b.valid
  /\ \/ DayNumber(a) < DayNumber(b)
     \/ DayNumber(a) = DayNumber(b) /\ TimeOfDay(a) < TimeOfDay(b)

SameTime(a, b) == a.valid /\ b.valid /\ a = b

\* Math.min(a, b)
MathMin(a, b) == IF IsNaN(a) \/ IsNaN(b) THEN NaN ELSE IF a < b THEN a ELSE b

\* d after d.setDate(day)
SetDate(d, day) ==
  IF ~d.valid \/ IsNaN(day) THEN InvalidDate
  ELSE DateAt(DaysFromCivil(d.year, d.month, 1) + day - 1, TimeOfDay(d))

\* new Date(year, month + 1, 0).getDate(): the number of days of a month
LastDayOf(year, month) == NewDate(year, month + 1, 0, 0, 0, 0, 0).date

(***************************************************************************)
(* add and subtract                                                        *)
(***************************************************************************)
Units ==
  {"year", "month", "week", "day", "hour", "minute", "second", "millisecond"}

\* case 'year' of add
AddYearCase(d, amount) ==
  NewDate(d.year + amount, d.month,
          MathMin(d.date, LastDayOf(d.year + amount, d.month)),
          d.hours, d.minutes, d.seconds, d.ms)

\* case 'month' of add: result as it is constructed, on the first of its
\* month
MonthResult(d, amount) ==
  NewDate(d.year, d.month + amount, 1, d.hours, d.minutes, d.seconds, d.ms)

\* targetDay, for result as constructed
TargetDay(d, result) == MathMin(d.date, LastDayOf(result.year, result.month))

\* result after result.setDate(targetDay)
ClampDay(d, result) == SetDate(result, TargetDay(d, result))

AddMonthCase(d, amount) == ClampDay(d, MonthResult(d, amount))

\* add(input, amount, unit) for a Date input, as the value of the Date it
\* returns
add(input, amount, unit) ==
  IF ~toDate(input).valid THEN InvalidDate
  ELSE CASE unit = "year" -> AddYearCase(toDate(input), amount)
         [] unit = "month" -> AddMonthCase(toDate(input), amount)
         [] unit = "week" -> PlusTime(toDate(input), 7 * amount, 0)
         [] unit = "day" -> PlusTime(toDate(input), amount, 0)
         [] unit = "hour" -> PlusTime(toDate(input), 0, amount * 3600000)
         [] unit = "minute" -> PlusTime(toDate(input), 0, amount * 60000)
         [] unit = "second" -> PlusTime(toDate(input), 0, amount * 1000)
         [] unit = "millisecond" -> PlusTime(toDate(input), 0, amount)
         [] OTHER -> toDate(input)

subtract(input, amount, unit) == add(input, -amount, unit)

addDays(input, n) == add(input, n, "day")

subDays(input, n) == subtract(input, n, "day")

(***************************************************************************)
(* weekOfYear                                                              *)
(***************************************************************************)
\* Math.ceil(diff / oneWeek + 1) for the diff of days whole days and ms
\* milliseconds, 0 <= ms < MsPerDay
CeilWeeksPlusOne(days, ms) ==
  days \div 7 + 1 + (IF (days % 7) * MsPerDay + ms > 0 THEN 1 ELSE 0)

\* weekOfYear(input) for a Date input
weekOfYear(input) ==
  IF ~toDate(input).valid THEN NaN
  ELSE CeilWeeksPlusOne(
         DayNumber(toDate(input))
           - DayNumber(NewDate(toDate(input).year, 0, 1, 0, 0, 0, 0)),
         TimeOfDay(toDate(input)))

(***************************************************************************)
(* startOf and endOf                                                       *)
(***************************************************************************)
PeriodUnits == {"year", "month", "week", "day", "hour", "minute"}

startOf(input, unit) ==
  IF ~toDate(input).valid THEN InvalidDate
  ELSE LET d == toDate(input)
       IN  CASE unit = "year" -> NewDate(d.year, 0, 1, 0, 0, 0, 0)
             [] unit = "month" -> NewDate(d.year, d.month, 1, 0, 0, 0, 0)
             [] unit = "week" -> NewDate(d.year, d.month, d.date - d.day, 0, 0, 0, 0)
             [] unit = "day" -> NewDate(d.year, d.month, d.date, 0, 0, 0, 0)
             [] unit = "hour" -> NewDate(d.year, d.month, d.date, d.hours, 0, 0, 0)
             [] unit = "minute" ->
                  NewDate(d.year, d.month, d.date, d.hours, d.minutes, 0, 0)
             [] OTHER -> d

endOf(input, unit) ==
  IF ~toDate(input).valid THEN InvalidDate
  ELSE LET d == toDate(input)
       IN  CASE unit = "year" -> NewDate(d.year, 11, 31, 23, 59, 59, 999)
             [] unit = "month" -> NewDate(d.year, d.month + 1, 0, 23, 59, 59, 999)
             [] unit = "week" ->
                  NewDate(d.year, d.month, d.date + (6 - d.day), 23, 59, 59, 999)
             [] unit = "day" -> NewDate(d.year, d.month, d.date, 23, 59, 59, 999)
             [] unit = "hour" -> NewDate(d.year, d.month, d.date, d.hours, 59, 59, 999)
             [] unit = "minute" ->
                  NewDate(d.year, d.month, d.date, d.hours, d.minutes, 59, 999)
             [] OTHER -> d

(***************************************************************************)
(* Locale names: what Intl.DateTimeFormat(locale, {month|weekday: style})  *)
(* renders.  Only en-US is modelled.                                       *)
(***************************************************************************)
Locales == {"en-US"}

MonthsLong ==
  << "January", "February", "March", "April", "May", "June", "July",
     "August", "September", "October", "November", "December" >>

MonthsShort ==
  << "Jan", "Feb", "Mar", "Apr", "May", "Jun", "Jul", "Aug", "Sep", "Oct",
     "Nov", "Dec" >>

\* index 0 is Sunday
DaysLong ==
  << "Sunday", "Monday", "Tuesday", "Wednesday", "Thursday", "Friday",
     "Saturday" >>

DaysShort == << "Sun", "Mon", "Tue", "Wed", "Thu", "Fri", "Sat" >>

\* the names of the locale id-ID
MonthsLongId ==
  << "Januari", "Februari", "Maret", "April", "Mei", "Juni", "Juli",
     "Agustus", "September", "Oktober", "November", "Desember" >>

MonthsShortId ==
  << "Jan", "Feb", "Mar", "Apr", "Mei", "Jun", "Jul", "Agu", "Sep", "Okt",
     "Nov", "Des" >>

DaysLongId ==
  << "Minggu", "Senin", "Selasa", "Rabu", "Kamis", "Jumat", "Sabtu" >>

DaysShortId == << "Min", "Sen", "Sel", "Rab", "Kam", "Jum", "Sab" >>

\* new Intl.DateTimeFormat(locale, { month: style }).format(d), d valid
IntlMonth(locale, style, d) ==
  IF locale = "id-ID"
  THEN IF style = "long" THEN MonthsLongId[d.month + 1] ELSE MonthsShortId[d.month + 1]
  ELSE IF style = "long" THEN MonthsLong[d.month + 1] ELSE MonthsShort[d.month + 1]

\* new Intl.DateTimeFormat(locale, { weekday: style }).format(d), d valid
IntlWeekday(locale, style, d) ==
  IF locale = "id-ID"
  THEN IF style = "long" THEN DaysLongId[d.day + 1] ELSE DaysShortId[d.day + 1]
  ELSE IF style = "long" THEN DaysLong[d.day + 1] ELSE DaysShort[d.day + 1]

\* the subtags of a language tag: the texts between its hyphens, cur being
\* the text since the last hyphen before index i
RECURSIVE SplitFrom(_, _, _)
SplitFrom(s, i, cur) ==
  IF i > Len(s) THEN << cur >>
  ELSE IF Ch(s, i) = "-" THEN << cur >> \o SplitFrom(s, i + 1, "")
  ELSE SplitFrom(s, i + 1, cur \o Ch(s, i))

IsAlpha(s) == \A i \in 1..Len(s) : IndexOf(LowerLetters, ToLowerCh(Ch(s, i))) # -1

IsAlphanum(s) ==
  \A i \in 1..Len(s) : IsDigit(Ch(s, i)) \/ IsAlpha(Ch(s, i))

\* the subtags are those of a language tag: a language of 2, 3 or 5 to 8
\* letters, then subtags of 1 to 8 letters and digits
ValidSubtags(subtags) ==
  /\ Len(subtags[1]) \in {2, 3, 5, 6, 7, 8} /\ IsAlpha(subtags[1])
  /\ \A k \in 2..Len(subtags) :
       Len(subtags[k]) \in 1..8 /\ IsAlphanum(subtags[k])

\* new Intl.DateTimeFormat(locale, ...) throws a RangeError for a tag that is
\* not a language tag in its structure
IsStructurallyValidLanguageTag(tag) == ValidSubtags(SplitFrom(tag, 1, ""))

\* the locales the environment has names for, and the one it falls back to
SupportedLocales == {"en-US", "id-ID"}

DefaultLocale == "en-US"

(***************************************************************************)
(* Sorting by length, longest first: sort((a, b) => b.length - a.length).  *)
(* The sort is stable, so equal lengths keep their order.                  *)
(***************************************************************************)
RECURSIVE PickKey(_, _, _, _)
\* the elements of seq from index i on whose key is n, in their order
PickKey(seq, keys, n, i) ==
  IF i > Len(seq) THEN << >>
  ELSE (IF keys[i] = n THEN << seq[i] >> ELSE << >>) \o PickKey(seq, keys, n, i + 1)

RECURSIVE SortFrom(_, _, _, _)
\* the elements of seq whose key is at most n, ordered by key; keys[i] is
\* the key of seq[i]
SortFrom(seq, keys, n, asc) ==
  IF n < 0 THEN << >>
  ELSE IF asc
       THEN SortFrom(seq, keys, n - 1, asc) \o PickKey(seq, keys, n, 1)
       ELSE PickKey(seq, keys, n, 1) \o SortFrom(seq, keys, n - 1, asc)

RECURSIVE MaxKeyFrom(_, _, _)
MaxKeyFrom(keys, i, best) ==
  IF i > Len(keys) THEN best
  ELSE MaxKeyFrom(keys, i + 1, IF keys[i] > best THEN keys[i] ELSE best)

MaxKey(keys) == MaxKeyFrom(keys, 1, 0)

SortDescending(seq, keys) == SortFrom(seq, keys, MaxKey(keys), FALSE)

SortAscending(seq, keys) == SortFrom(seq, keys, MaxKey(keys), TRUE)

\* the lengths of the strings of seq
Lengths(seq) == [i \in 1..Len(seq) |-> Len(seq[i])]

(***************************************************************************)
(* formatStr                                                               *)
(***************************************************************************)
\* Object.keys(tokens): the keys of the value table in insertion order
FormatKeys ==
  << "YYYY", "YY", "MMMM", "MMM", "MM", "M", "DD", "D", "dddd", "ddd",
     "HH", "H", "hh", "h", "mm", "m", "ss", "s", "SSS", "A", "a" >>

pad(n, len) == padStart(String(n), len)

\* hours % 12 || 12
Hours12(hours) == IF hours % 12 = 0 THEN 12 ELSE hours % 12

\* the value table of formatStr for a valid date d
FormatTokens(d, locale) ==
  [k \in { FormatKeys[i] : i \in 1..Len(FormatKeys) } |->
     CASE k = "YYYY" -> String(d.year)
       [] k = "YY"   -> SliceLast2(String(d.year))
       [] k = "MMMM" -> IntlMonth(locale, "long", d)
       [] k = "MMM"  -> IntlMonth(locale, "short", d)
       [] k = "MM"   -> pad(d.month + 1, 2)
       [] k = "M"    -> String(d.month + 1)
       [] k = "DD"   -> pad(d.date, 2)
       [] k = "D"    -> String(d.date)
       [] k = "dddd" -> IntlWeekday(locale, "long", d)
       [] k = "ddd"  -> IntlWeekday(locale, "short", d)
       [] k = "HH"   -> pad(d.hours, 2)
       [] k = "H"    -> String(d.hours)
       [] k = "hh"   -> pad(Hours12(d.hours), 2)
       [] k = "h"    -> String(Hours12(d.hours))
       [] k = "mm"   -> pad(d.minutes, 2)
       [] k = "m"    -> String(d.minutes)
       [] k = "ss"   -> pad(d.seconds, 2)
       [] k = "s"    -> String(d.seconds)
       [] k = "SSS"  -> pad(d.ms, 3)
       [] k = "A"    -> IF d.hours < 12 THEN "AM" ELSE "PM"
       [] k = "a"    -> IF d.hours < 12 THEN "am" ELSE "pm"]

\* the keys shortest first, the order a sort by a.length - b.length gives
FormatPatternAscending == SortAscending(FormatKeys, Lengths(FormatKeys))

\* the alternation of the keys, longest first
FormatPattern == SortDescending(FormatKeys, Lengths(FormatKeys))

\* the last alternative of the pattern that matches template at index i
LastAlternative(pattern, template, i) ==
  LET hits == { a \in 1..Len(pattern) :
                  Slice(template, i, i + Len(pattern[a]) - 1) = pattern[a] }
  IN  IF hits = {} THEN 0 ELSE Max(hits)

\* the first alternative of the pattern that matches template at index i
\* (1-based), as an index into pattern, or 0
FirstAlternative(pattern, template, i) ==
  LET hits == { a \in 1..Len(pattern) :
                  Slice(template, i, i + Len(pattern[a]) - 1) = pattern[a] }
  IN  IF hits = {} THEN 0 ELSE Min(hits)

\* template.replace(new RegExp(pattern, 'g'), match => tokens[match] || match)
RECURSIVE ReplaceAll(_, _, _, _)
ReplaceAll(template, i, pattern, tokens) ==
  IF i > Len(template) THEN ""
  ELSE LET a == FirstAlternative(pattern, template, i)
       IN  IF a = 0
           THEN Ch(template, i) \o ReplaceAll(template, i + 1, pattern, tokens)
           ELSE LET match == pattern[a]
                    value == IF tokens[match] = "" THEN match ELSE tokens[match]
                IN  value \o ReplaceAll(template, i + Len(match), pattern, tokens)

\* the calls of the replace callback in their order: the 0-based position of
\* each match and the text matched
RECURSIVE Substitutions(_, _, _)
Substitutions(template, i, pattern) ==
  IF i > Len(template) THEN << >>
  ELSE IF FirstAlternative(pattern, template, i) = 0
  THEN Substitutions(template, i + 1, pattern)
  ELSE << [pos |-> i - 1, token |-> pattern[FirstAlternative(pattern, template, i)]] >>
         \o Substitutions(template,
                          i + Len(pattern[FirstAlternative(pattern, template, i)]),
                          pattern)

\* formatStr(input, template, locale): new Intl.DateTimeFormat throws a
\* RangeError for a malformed locale, and Intl.DateTimeFormat.prototype.format
\* throws one for an Invalid Date
formatStr(input, template, locale) ==
  LET d == toDate(input)
  IN  IF ~IsStructurallyValidLanguageTag(locale) \/ ~d.valid
      THEN [threw |-> TRUE, error |-> "RangeError", text |-> ""]
      ELSE [threw |-> FALSE, error |-> "",
            text |-> ReplaceAll(template, 1, FormatPattern, FormatTokens(d, locale))]

(***************************************************************************)
(* parse: the token catalog and the name fragments                         *)
(***************************************************************************)
RECURSIVE Join(_, _)
Join(seq, sep) ==
  IF seq = << >> THEN ""
  ELSE IF Len(seq) = 1 THEN seq[1]
  ELSE seq[1] \o sep \o Join(Tail(seq), sep)

\* s.replace(/[...]/g, '\\$&'): a backslash before every character of specials
RECURSIVE EscapeFrom(_, _, _)
EscapeFrom(s, i, specials) ==
  IF i > Len(s) THEN ""
  ELSE LET c == SubSeq(s, i, i)
       IN  (IF c \in specials THEN "\\" \o c ELSE c) \o EscapeFrom(s, i + 1, specials)

EscapeChars(s, specials) == EscapeFrom(s, 1, specials)

\* the character class applied to the template, /[.*+?^${}|[\]\\]/
TemplateSpecials ==
  {".", "*", "+", "?", "^", "$", "{", "}", "|", "[", "]", "\\"}

\* the character class of the name fragments, /[.*+?^${}()|[\]\\]/
NameSpecials == TemplateSpecials \cup {"(", ")"}

\* the twelve month names and the seven weekday names a locale renders
MonthNames(loc, style) ==
  [m \in 1..12 |-> IntlMonth(loc, style, [month |-> m - 1])]

DayNames(loc, style) ==
  [d \in 1..7 |-> IntlWeekday(loc, style, [day |-> d - 1])]

NameAlternation(names) ==
  LET sorted == SortDescending(names, Lengths(names))
  IN  "(" \o Join([i \in 1..Len(sorted) |-> EscapeChars(sorted[i], NameSpecials)],
                  "|")
          \o ")"

buildMonthRegex(loc, style) == NameAlternation(MonthNames(loc, style))

buildDayRegex(loc, style) == NameAlternation(DayNames(loc, style))

\* Map.get of the lower-cased name tables: the index set last for key v,
\* or -1 for undefined
NameIndex(names, v) ==
  LET hits == { i \in 1..Len(names) : toLowerCase(names[i]) = v }
  IN  IF hits = {} THEN -1 ELSE Max(hits) - 1

getMonthNamesMap(loc) ==
  [long  |-> [v \in STRING |-> NameIndex(MonthNames(loc, "long"), v)],
   short |-> [v \in STRING |-> NameIndex(MonthNames(loc, "short"), v)]]

getDayNamesMap(loc) ==
  [long  |-> [v \in STRING |-> NameIndex(DayNames(loc, "long"), v)],
   short |-> [v \in STRING |-> NameIndex(DayNames(loc, "short"), v)]]

tokenDefs(loc) ==
  << [token |-> "YYYY", regex |-> "(\\d{4})",   field |-> "year"],
     [token |-> "YY",   regex |-> "(\\d{2})",   field |-> "year"],
     [token |-> "MMMM", regex |-> buildMonthRegex(loc, "long"),  field |-> "month"],
     [token |-> "MMM",  regex |-> buildMonthRegex(loc, "short"), field |-> "month"],
     [token |-> "MM",   regex |-> "(\\d{2})",   field |-> "month"],
     [token |-> "M",    regex |-> "(\\d{1,2})", field |-> "month"],
     [token |-> "dddd", regex |-> buildDayRegex(loc, "long"),  field |-> "weekday"],
     [token |-> "ddd",  regex |-> buildDayRegex(loc, "short"), field |-> "weekday"],
     [token |-> "DD",   regex |-> "(\\d{2})",   field |-> "day"],
     [token |-> "D",    regex |-> "(\\d{1,2})", field |-> "day"],
     [token |-> "HH",   regex |-> "(\\d{2})",   field |-> "hour"],
     [token |-> "H",    regex |-> "(\\d{1,2})", field |-> "hour"],
     [token |-> "hh",   regex |-> "(\\d{2})",   field |-> "hour12"],
     [token |-> "h",    regex |-> "(\\d{1,2})", field |-> "hour12"],
     [token |-> "mm",   regex |-> "(\\d{2})",   field |-> "minute"],
     [token |-> "m",    regex |-> "(\\d{1,2})", field |-> "minute"],
     [token |-> "ss",   regex |-> "(\\d{2})",   field |-> "second"],
     [token |-> "s",    regex |-> "(\\d{1,2})", field |-> "second"],
     [token |-> "SSS",  regex |-> "(\\d{3})",   field |-> "ms"],
     [token |-> "A",    regex |-> "(AM|PM)",    field |-> "meridiem"],
     [token |-> "a",    regex |-> "(am|pm)",    field |-> "meridiem"] >>

\* the result of a transform that throws (v.toLowerCase() of undefined)
Throws == [threw |-> TRUE, value |-> NaN]

Returns(n) == [threw |-> FALSE, value |-> n]

\* map.get(key) without a fallback: undefined, a NaN field
OrUndefined(n) == IF n = -1 THEN NaN ELSE n

\* map.get(key) ?? 0
OrZero(n) == IF n = -1 THEN 0 ELSE n

\* def.transform(v, loc): v is << >> for undefined and << text >> otherwise
transform(token, v, loc) ==
  LET raw == IF v = << >> THEN Undefined ELSE v[1]
      int == IF v = << >> THEN NaN ELSE parseInt(v[1])
  IN  CASE token = "YYYY" -> Returns(int)
        [] token = "YY"   -> Returns(Plus(2000, int))
        [] token = "MMMM" ->
             IF v = << >> THEN Throws
             ELSE Returns(OrZero(getMonthNamesMap(loc).long[toLowerCase(raw)]))
        [] token = "MMM"  ->
             IF v = << >> THEN Throws
             ELSE Returns(OrZero(getMonthNamesMap(loc).short[toLowerCase(raw)]))
        [] token \in {"MM", "M"} -> Returns(Plus(int, -1))
        [] token = "dddd" ->
             IF v = << >> THEN Throws
             ELSE Returns(OrZero(getDayNamesMap(loc).long[toLowerCase(raw)]))
        [] token = "ddd"  ->
             IF v = << >> THEN Throws
             ELSE Returns(OrZero(getDayNamesMap(loc).short[toLowerCase(raw)]))
        [] token = "A"    -> Returns(IF v = << "PM" >> THEN 1 ELSE 0)
        [] token = "a"    -> Returns(IF v = << "pm" >> THEN 1 ELSE 0)
        [] OTHER          -> Returns(int)

(***************************************************************************)
(* parse: locating the tokens of the template                              *)
(***************************************************************************)
\* the filler '\x00' of searchTemplate, a character no template contains
Filler == "\f"

\* the token lengths of the definitions defs
TokenLengths(defs) == [i \in 1..Len(defs) |-> Len(defs[i].token)]

\* the definitions shortest token first, the order a.token.length -
\* b.token.length gives
sortedDefsAscending(loc) ==
  LET defs == tokenDefs(loc) IN SortAscending(defs, TokenLengths(defs))

\* the definitions longest token first
sortedDefs(loc) ==
  LET defs == tokenDefs(loc) IN SortDescending(defs, TokenLengths(defs))

\* the for/while loops over sortedDefs, from definition k on
RECURSIVE LocateTokens(_, _, _, _)
LocateTokens(defs, k, searchTemplate, found) ==
  IF k > Len(defs) THEN found
  ELSE LET def == defs[k]
           pos == IndexOf(searchTemplate, def.token)
       IN  IF pos = -1
           THEN LocateTokens(defs, k + 1, searchTemplate, found)
           ELSE LocateTokens(defs, k,
                  SubstringTo(searchTemplate, pos)
                    \o Repeat(Filler, Len(def.token))
                    \o SubstringFrom(searchTemplate, pos + Len(def.token)),
                  Append(found, [pos |-> pos, def |-> def]))

\* the positions of the located tokens found
Positions(found) == [i \in 1..Len(found) |-> found[i].pos]

\* foundTokens after foundTokens.sort((a, b) => a.pos - b.pos)
foundTokens(tmpl, loc) ==
  LET found == LocateTokens(sortedDefs(loc), 1, tmpl, << >>)
  IN  SortAscending(found, Positions(found))

(***************************************************************************)
(* parse: building the pattern                                             *)
(***************************************************************************)
\* s.replace(t, r) with a string t: the first occurrence only
ReplaceFirst(s, t, r) ==
  LET pos == IndexOf(s, t)
  IN  IF pos = -1 THEN s
      ELSE SubstringTo(s, pos) \o r \o SubstringFrom(s, pos + Len(t))

\* the loop over [...foundTokens].sort((a, b) => b.pos - a.pos)
RECURSIVE ReplaceTokens(_, _, _)
ReplaceTokens(escapedTemplate, order, k) ==
  IF k > Len(order) THEN escapedTemplate
  ELSE LET def          == order[k].def
           escapedToken == EscapeChars(def.token, TemplateSpecials)
       IN  ReplaceTokens(ReplaceFirst(escapedTemplate, escapedToken, def.regex),
                         order, k + 1)

escapedTemplate(tmpl, found) ==
  ReplaceTokens(EscapeChars(tmpl, TemplateSpecials),
                SortDescending(found, Positions(found)), 1)

\* the source without the closing anchor
RegExpSourceUnanchored(tmpl, found) == "^" \o escapedTemplate(tmpl, found)

\* the source of new RegExp('^' + escapedTemplate + '$', 'i')
RegExpSource(tmpl, found) == "^" \o escapedTemplate(tmpl, found) \o "$"

(***************************************************************************)
(* Regular expressions: new RegExp(source, 'i') and String.prototype.match *)
(* for the patterns parse can build: characters, escaped characters,       *)
(* \d{n} and \d{n,m}, groups, alternation, ^ and $.                         *)
(***************************************************************************)
SyntaxError == [ok |-> FALSE, i |-> 0, ng |-> 0, terms |-> << >>, alts |-> << >>]

RECURSIVE ParseDisjunction(_, _, _)
RECURSIVE ParseAlternative(_, _, _)
RECURSIVE ParseTerm(_, _, _)

\* \d, \d{n} or \d{n,m} at index i of p (p[i] is the backslash)
ParseDigits(p, i, ng) ==
  LET n == DigitVal(Ch(p, i + 3))
  IN  IF Ch(p, i + 2) = "{" /\ IsDigit(Ch(p, i + 3)) /\ Ch(p, i + 4) = "}"
      THEN [ok |-> TRUE, i |-> i + 5, ng |-> ng,
            node |-> [t |-> "digits", min |-> n, max |-> n]]
      ELSE IF Ch(p, i + 2) = "{" /\ IsDigit(Ch(p, i + 3)) /\ Ch(p, i + 4) = ","
                /\ IsDigit(Ch(p, i + 5)) /\ Ch(p, i + 6) = "}"
      THEN [ok |-> TRUE, i |-> i + 7, ng |-> ng,
            node |-> [t |-> "digits", min |-> n, max |-> DigitVal(Ch(p, i + 5))]]
      ELSE [ok |-> TRUE, i |-> i + 2, ng |-> ng,
            node |-> [t |-> "digits", min |-> 1, max |-> 1]]

\* the group opened at index i of p, d being the disjunction parsed inside
GroupTerm(p, i, ng, d) ==
  IF d.ok /\ Ch(p, d.i) = ")"
  THEN [ok |-> TRUE, i |-> d.i + 1, ng |-> d.ng,
        node |-> [t |-> "group", idx |-> ng + 1, alts |-> d.alts]]
  ELSE [ok |-> FALSE, i |-> i, ng |-> ng, node |-> [t |-> "none"]]

ParseTerm(p, i, ng) ==
  LET c == Ch(p, i)
  IN  CASE c = "(" -> GroupTerm(p, i, ng, ParseDisjunction(p, i + 1, ng + 1))
        [] c = "\\" ->
             IF Ch(p, i + 1) = "d" THEN ParseDigits(p, i, ng)
             ELSE [ok |-> TRUE, i |-> i + 2, ng |-> ng,
                   node |-> [t |-> "char", c |-> Ch(p, i + 1)]]
        [] c = "^" -> [ok |-> TRUE, i |-> i + 1, ng |-> ng, node |-> [t |-> "bol"]]
        [] c = "$" -> [ok |-> TRUE, i |-> i + 1, ng |-> ng, node |-> [t |-> "eol"]]
        [] OTHER   -> [ok |-> TRUE, i |-> i + 1, ng |-> ng,
                       node |-> [t |-> "char", c |-> c]]

\* the term t followed by the rest r of its alternative
ConsTerm(t, r) ==
  IF ~r.ok THEN SyntaxError ELSE [r EXCEPT !.terms = << t.node >> \o r.terms]

\* the alternative of p that starts with the parsed term t
AfterTerm(p, t) ==
  IF ~t.ok THEN SyntaxError ELSE ConsTerm(t, ParseAlternative(p, t.i, t.ng))

ParseAlternative(p, i, ng) ==
  IF i > Len(p) \/ Ch(p, i) \in {"|", ")"}
  THEN [ok |-> TRUE, i |-> i, ng |-> ng, terms |-> << >>, alts |-> << >>]
  ELSE AfterTerm(p, ParseTerm(p, i, ng))

\* the alternative a followed by the rest r of its disjunction
ConsAlternative(a, r) ==
  IF ~r.ok THEN SyntaxError ELSE [r EXCEPT !.alts = << a.terms >> \o r.alts]

\* the disjunction of p that starts with the parsed alternative a
AfterAlternative(p, a) ==
  IF ~a.ok THEN SyntaxError
  ELSE IF a.i <= Len(p) /\ Ch(p, a.i) = "|"
  THEN ConsAlternative(a, ParseDisjunction(p, a.i + 1, a.ng))
  ELSE [a EXCEPT !.alts = << a.terms >>]

ParseDisjunction(p, i, ng) == AfterAlternative(p, ParseAlternative(p, i, ng))

\* the pattern of a source that parsed as the disjunction d
RegExpOf(source, d) ==
  IF d.ok /\ d.i > Len(source)
  THEN [ok |-> TRUE, alts |-> d.alts, ng |-> d.ng]
  ELSE [ok |-> FALSE, alts |-> << >>, ng |-> 0]

\* new RegExp(source, 'i'): the compiled pattern, or ok = FALSE where the
\* constructor throws a SyntaxError (a parenthesis without its partner)
NewRegExp(source) == RegExpOf(source, ParseDisjunction(source, 1, 0))

\* two characters match under the i flag
SameChar(a, b) == a # "" /\ (a = b \/ ToUpperCh(a) = ToUpperCh(b))

RECURSIVE AllDigits(_, _, _)
AllDigits(s, i, n) ==
  n = 0 \/ (IsDigit(Ch(s, i)) /\ AllDigits(s, i + 1, n - 1))

RECURSIVE Flatten(_)
Flatten(seqs) == IF seqs = << >> THEN << >> ELSE Head(seqs) \o Flatten(Tail(seqs))

RECURSIVE MatchTerm(_, _, _, _)
RECURSIVE MatchAlternative(_, _, _, _, _)
RECURSIVE MatchDisjunction(_, _, _, _)

\* the matches inner of the inside of a group that starts at index i of s,
\* each with the text of the group captured
GroupMatches(node, s, i, inner) ==
  [k \in 1..Len(inner) |->
    [i |-> inner[k].i,
     caps |-> [inner[k].caps EXCEPT
                 ![node.idx] = << Slice(s, i, inner[k].i - 1) >>]]]

\* the ways node matches s from index i, in the order backtracking tries
\* them; each is the index after the match and the captures so far
MatchTerm(node, s, i, caps) ==
  CASE node.t = "char" ->
         IF SameChar(Ch(s, i), node.c) THEN << [i |-> i + 1, caps |-> caps] >>
         ELSE << >>
    [] node.t = "digits" ->
         LET counts == node.max - node.min + 1
         IN  Flatten([k \in 1..counts |->
               LET n == node.max - k + 1
               IN  IF AllDigits(s, i, n) THEN << [i |-> i + n, caps |-> caps] >>
                   ELSE << >>])
    [] node.t = "group" ->
         GroupMatches(node, s, i, MatchDisjunction(node.alts, s, i, caps))
    [] node.t = "bol" -> IF i = 1 THEN << [i |-> i, caps |-> caps] >> ELSE << >>
    [] node.t = "eol" ->
         IF i = Len(s) + 1 THEN << [i |-> i, caps |-> caps] >> ELSE << >>

\* the matches of the terms after term k, tried after each match in first
MatchRest(terms, k, s, first) ==
  Flatten([j \in 1..Len(first) |->
    MatchAlternative(terms, k + 1, s, first[j].i, first[j].caps)])

MatchAlternative(terms, k, s, i, caps) ==
  IF k > Len(terms) THEN << [i |-> i, caps |-> caps] >>
  ELSE MatchRest(terms, k, s, MatchTerm(terms[k], s, i, caps))

MatchDisjunction(alts, s, i, caps) ==
  Flatten([a \in 1..Len(alts) |-> MatchAlternative(alts[a], 1, s, i, caps)])

\* the match at the first start index that has one: << >> for null,
\* otherwise << match[0], the captures >>, an absent capture being << >>
RECURSIVE ExecFrom(_, _, _)
\* the match array for the matches found at index start, or the search
\* from the next index when there is none
ExecAt(re, s, start, found) ==
  IF found = << >> THEN ExecFrom(re, s, start + 1)
  ELSE << Slice(s, start, found[1].i - 1), found[1].caps >>

ExecFrom(re, s, start) ==
  IF start > Len(s) + 1 THEN << >>
  ELSE ExecAt(re, s, start,
              MatchDisjunction(re.alts, s, start, [g \in 1..re.ng |-> << >>]))

\* dateStr.match(regex)
StringMatch(s, re) == ExecFrom(re, s, 1)

(***************************************************************************)
(* parse: resolving the fields and composing the Date                      *)
(***************************************************************************)
\* a parts record whose month starts 1-based
DefaultPartsOneBasedMonth(thisYear) ==
  [year |-> thisYear, month |-> 1, day |-> 1, hour |-> 0, hour12 |-> 0,
   minute |-> 0, second |-> 0, ms |-> 0, meridiem |-> -1, weekday |-> -1]

\* the initial parts record; year is new Date().getFullYear()
DefaultParts(thisYear) ==
  [year |-> thisYear, month |-> 0, day |-> 1, hour |-> 0, hour12 |-> 0,
   minute |-> 0, second |-> 0, ms |-> 0, meridiem |-> -1, weekday |-> -1]

\* match[n] of a match array << match[0], captures >>
MatchAt(match, n) == IF n \in DOMAIN match[2] THEN match[2][n] ELSE << >>

\* the loop "for (let i = 0; i < foundTokens.length; i++)", from token k on
RECURSIVE ApplyMatches(_, _, _, _, _)
\* parts[def.field] = value for token k, then the rest of the loop
ApplyValue(found, k, match, parts, loc, value) ==
  IF value.threw THEN [threw |-> TRUE, parts |-> parts]
  ELSE ApplyMatches(found, k + 1, match,
                    [parts EXCEPT ![found[k].def.field] = value.value], loc)

ApplyMatches(found, k, match, parts, loc) ==
  IF k > Len(found) THEN [threw |-> FALSE, parts |-> parts]
  ELSE ApplyValue(found, k, match, parts, loc,
                  transform(found[k].def.token, MatchAt(match, k), loc))

\* the resolution without the branch for 12 AM
ResolveHourNoMidnight(parts) ==
  IF Gt(parts.hour12, 0) /\ Ge(parts.meridiem, 0)
  THEN IF parts.meridiem = 1 /\ parts.hour12 # 12 THEN Plus(parts.hour12, 12)
       ELSE parts.hour12
  ELSE IF Gt(parts.hour12, 0) THEN parts.hour12
  ELSE parts.hour

\* the 24-hour value from parts.hour, parts.hour12 and parts.meridiem
ResolveHour(parts) ==
  IF Gt(parts.hour12, 0) /\ Ge(parts.meridiem, 0)
  THEN IF parts.meridiem = 1 /\ parts.hour12 # 12 THEN Plus(parts.hour12, 12)
       ELSE IF parts.meridiem = 0 /\ parts.hour12 = 12 THEN 0
       ELSE parts.hour12
  ELSE IF Gt(parts.hour12, 0) THEN parts.hour12
  ELSE parts.hour

NoParts == DefaultParts(NaN)

\* what a call of parse leaves behind: how it ended ("returned" or "threw"
\* with the error), the located tokens, the pattern source, the match array
\* (<< >> for null), the parts record, the resolved hour and the Date
ParseOutcome(status, error, found, source, match, parts, hour, date) ==
  [status |-> status, error |-> error, foundTokens |-> found,
   source |-> source, match |-> match, parts |-> parts, hour |-> hour,
   date |-> date]

\* a Date whose day is moved by the weekday that was captured
ComposeWithWeekday(found, source, match, parts, hour) ==
  ParseOutcome("returned", "", found, source, match, parts, hour,
               NewDate(parts.year, parts.month,
                       IF Ge(parts.weekday, 0) THEN Plus(parts.day, parts.weekday)
                       ELSE parts.day,
                       hour, parts.minute, parts.second, parts.ms))

\* return new Date(parts.year, parts.month, parts.day, hour, ...)
Compose(found, source, match, parts, hour) ==
  ParseOutcome("returned", "", found, source, match, parts, hour,
               NewDate(parts.year, parts.month, parts.day, hour, parts.minute,
                       parts.second, parts.ms))

\* the end of parse after the loop over the located tokens left fill
Resolve(found, source, match, fill) ==
  IF fill.threw
  THEN ParseOutcome("threw", "TypeError", found, source, match, fill.parts,
                    NaN, InvalidDate)
  ELSE Compose(found, source, match, fill.parts, ResolveHour(fill.parts))

\* parse from a test "if (!match || !match[0])" on, which an empty matched
\* text fails as well
AfterMatchFalsyText(loc, thisYear, found, source, match) ==
  IF match = << >> \/ match[1] = ""
  THEN ParseOutcome("returned", "", found, source, << >>, NoParts, NaN,
                    InvalidDate)
  ELSE Resolve(found, source, match,
               ApplyMatches(found, 1, match, DefaultParts(thisYear), loc))

\* parse from "if (!match)" on
AfterMatch(loc, thisYear, found, source, match) ==
  IF match = << >>
  THEN ParseOutcome("returned", "", found, source, << >>, NoParts, NaN,
                    InvalidDate)
  ELSE Resolve(found, source, match,
               ApplyMatches(found, 1, match, DefaultParts(thisYear), loc))

\* parse from dateStr.match(regex) on, regex being the outcome of new RegExp
AfterRegExp(dateStr, loc, thisYear, found, source, regex) ==
  IF ~regex.ok
  THEN ParseOutcome("threw", "SyntaxError", found, source, << >>, NoParts,
                    NaN, InvalidDate)
  ELSE AfterMatch(loc, thisYear, found, source, StringMatch(dateStr, regex))

ParseWith(dateStr, tmpl, loc, thisYear, found, source) ==
  AfterRegExp(dateStr, loc, thisYear, found, source, NewRegExp(source))

ParseLocated(dateStr, tmpl, loc, thisYear, found) ==
  ParseWith(dateStr, tmpl, loc, thisYear, found, RegExpSource(tmpl, found))

\* parse(dateStr, template, locale) in a year thisYear; buildMonthRegex, called
\* for the catalog, throws a RangeError for a malformed locale
parse(dateStr, tmpl, loc, thisYear) ==
  IF ~IsStructurallyValidLanguageTag(loc)
  THEN ParseOutcome("threw", "RangeError", << >>, "", << >>, NoParts, NaN,
                    InvalidDate)
  ELSE ParseLocated(dateStr, tmpl, loc, thisYear, foundTokens(tmpl, loc))

(***************************************************************************)
(* The caches: formatterCache, monthNamesCache and dayNamesCache           *)
(***************************************************************************)
\* the functions that keep a cache
CacheOps == {"getFormatter", "getMonthNamesMap", "getDayNamesMap"}

\* the cache a function keeps
CacheOf(op) ==
  CASE op = "getFormatter" -> "formatterCache"
    [] op = "getMonthNamesMap" -> "monthNamesCache"
    [] op = "getDayNamesMap" -> "dayNamesCache"

\* new Map()
EmptyMap == [k \in {} |-> 0]

\* the three caches when the module is loaded
EmptyCaches ==
  [formatterCache |-> EmptyMap, monthNamesCache |-> EmptyMap,
   dayNamesCache |-> EmptyMap]

\* map.get(key): << >> for undefined and << value >> otherwise
MapGet(map, key) == IF key \in DOMAIN map THEN << map[key] >> ELSE << >>

\* map.set(key, value)
MapSet(map, key, value) ==
  [k \in DOMAIN map \cup {key} |-> IF k = key THEN value ELSE map[k]]

\* a key that is the locale alone
StringifyLocaleOnly(options) == options.locale

\* JSON.stringify(options); options is its locale and the JSON text of the
\* properties after it
Stringify(options) ==
  "{\"locale\":\"" \o options.locale \o "\"" \o options.rest \o "}"

\* the key a function looks up for its argument: the options of
\* getFormatter, or the locale of the name table functions
CacheKey(op, arg) == IF op = "getFormatter" THEN Stringify(arg) ELSE arg.locale

\* the calls set(name, m) of the loop over the names, as pairs of the
\* lower-cased name and m
NameEntries(names) ==
  { << toLowerCase(names[i]), i - 1 >> : i \in 1..Len(names) }

\* the map the calls set(name, m) leave: a name set twice keeps the later m
MapOfEntries(entries) ==
  [v \in { e[1] : e \in entries } |->
     Max({ e[2] : e \in { x \in entries : x[1] = v } })]

NameMap(names) == MapOfEntries(NameEntries(names))

\* the object a function builds on a miss; id tells one object from another
NewValue(op, arg, id) ==
  CASE op = "getFormatter" ->
         [id |-> id, locale |-> arg.locale, opts |-> arg.rest]
    [] op = "getMonthNamesMap" ->
         [id |-> id, long |-> NameMap(MonthNames(arg.locale, "long")),
          short |-> NameMap(MonthNames(arg.locale, "short"))]
    [] op = "getDayNamesMap" ->
         [id |-> id, long |-> NameMap(DayNames(arg.locale, "long")),
          short |-> NameMap(DayNames(arg.locale, "short"))]

\* the branch "if (!cached)": build, set and return value
CallMiss(c, id, op, arg, value) ==
  [caches |-> [c EXCEPT ![CacheOf(op)] = MapSet(@, CacheKey(op, arg), value)],
   nextId |-> id + 1, hit |-> FALSE, result |-> value]

\* the function from the test of cached on
CallWith(c, id, op, arg, cached) ==
  IF cached # << >>
  THEN [caches |-> c, nextId |-> id, hit |-> TRUE, result |-> cached[1]]
  ELSE CallMiss(c, id, op, arg, NewValue(op, arg, id))

\* a function that builds and sets without looking up
RunCallRebuilding(c, id, op, arg) ==
  CallMiss(c, id, op, arg, NewValue(op, arg, id))

\* one whole call of getFormatter, getMonthNamesMap or getDayNamesMap with
\* the caches c, id being the next object
RunCall(c, id, op, arg) ==
  CallWith(c, id, op, arg, MapGet(c[CacheOf(op)], CacheKey(op, arg)))

\* the name table function the transform of a token calls, or ""
LookupOf(token) ==
  CASE token \in {"MMMM", "MMM"} -> "getMonthNamesMap"
    [] token \in {"dddd", "ddd"} -> "getDayNamesMap"
    [] OTHER -> ""

\* the number of located tokens whose transform ran in a call of parse: none
\* without a match, and up to the one that threw
RECURSIVE TransformsRun(_, _)
TransformsRun(outcome, k) ==
  IF outcome.match = << >> THEN 0
  ELSE IF k >= Len(outcome.foundTokens) THEN Len(outcome.foundTokens)
  ELSE IF /\ LookupOf(outcome.foundTokens[k + 1].def.token) # ""
          /\ MatchAt(outcome.match, k + 1) = << >>
  THEN k + 1
  ELSE TransformsRun(outcome, k + 1)

\* a call of a caching function by a caller: what it was called with, where
\* it is, whether its lookup found an entry, its local variable (cached or
\* formatter) and what it returned; << >> is undefined
NoInvocation ==
  [op |-> "", arg |-> [locale |-> "", rest |-> ""], pc |-> "idle",
   hit |-> FALSE, cached |-> << >>, result |-> << >>]

\* the call of op with arg that ran as r, after it returned
Completed(op, arg, r) ==
  [op |-> op, arg |-> arg, pc |-> "done", hit |-> r.hit,
   cached |-> << r.result >>, result |-> << r.result >>]

\* the caches, the next object and the last call of a name table function
\* after the transforms of tokens k..n
RECURSIVE RunLookups(_, _, _, _, _)
RunLookupsFrom(r, op, found, k, n, loc) ==
  RunLookups([caches |-> r.caches, nextId |-> r.nextId,
              last |-> Completed(op, [locale |-> loc, rest |-> ""], r)],
             found, k, n, loc)

RunLookups(state, found, k, n, loc) ==
  IF k > n THEN state
  ELSE IF LookupOf(found[k].def.token) = ""
  THEN RunLookups(state, found, k + 1, n, loc)
  ELSE RunLookupsFrom(RunCall(state.caches, state.nextId,
                              LookupOf(found[k].def.token),
                              [locale |-> loc, rest |-> ""]),
                      LookupOf(found[k].def.token), found, k + 1, n, loc)

\* the caches after a call of parse that ended as outcome
AfterParse(c, id, outcome, loc) ==
  RunLookups([caches |-> c, nextId |-> id, last |-> NoInvocation],
             outcome.foundTokens, 1, TransformsRun(outcome, 0), loc)

(***************************************************************************)
(* DateInput values: a Date, a string or a number, and the argument that   *)
(* was left out                                                            *)
(***************************************************************************)
NoInput == [kind |-> "undefined"]

DateValue(date) == [kind |-> "Date", date |-> date]

NumberValue(n) == [kind |-> "number", number |-> n]

StringValue(text) == [kind |-> "string", text |-> text]

\* new Date(text) for the texts of DateTexts
DateOfString(text) ==
  CASE text = "2024-01-15T10:30:00" -> NewDate(2024, 0, 15, 10, 30, 0, 0)
    [] text = "1970-01-01T00:00:00" -> NewDate(1970, 0, 1, 0, 0, 0, 0)
    [] text = "2024-02-29" -> NewDate(2024, 1, 29, 0, 0, 0, 0)
    [] OTHER -> InvalidDate

\* new Date(n) for a number of milliseconds
DateOfNumber(n) == IF IsNaN(n) THEN InvalidDate ELSE DateAt(0, n)

\* toDate(input) for any DateInput, as the value of the Date it returns
toDateInput(v) ==
  CASE v.kind = "Date" -> toDate(v.date)
    [] v.kind = "number" -> DateOfNumber(v.number)
    [] v.kind = "string" -> DateOfString(v.text)

\* the condition "input ?" of d
Truthy(v) ==
  CASE v.kind = "Date" -> TRUE
    [] v.kind = "number" -> ~IsNaN(v.number) /\ v.number # 0
    [] v.kind = "string" -> v.text # ""
    [] v.kind = "undefined" -> FALSE

\* the date that d(input) keeps when the clock shows now
WrappedDate(v, now) == IF Truthy(v) THEN toDateInput(v) ELSE now

(***************************************************************************)
(* duration.  A count of milliseconds is kept as its whole days and the    *)
(* milliseconds left over (a year of milliseconds does not fit the         *)
(* integers of the checker): absMs = days * MsPerDay + ms with             *)
(* 0 <= ms < MsPerDay, so that Math.floor(absMs / (k * MsPerDay)) is       *)
(* days \div k and absMs % (k * MsPerDay) is (days % k) * MsPerDay + ms.   *)
(***************************************************************************)
\* duration(totalMs) for totalMs >= 0 given as days and ms
duration(days, ms) ==
  [years        |-> days \div 365,
   months       |-> (days % 365) \div 30,
   weeks        |-> (days % 30) \div 7,
   days         |-> days % 7,
   hours        |-> ms \div 3600000,
   minutes      |-> (ms % 3600000) \div 60000,
   seconds      |-> (ms % 60000) \div 1000,
   milliseconds |-> ms % 1000]

(***************************************************************************)
(* Business days                                                           *)
(***************************************************************************)
\* isSameDay(a, b) for Dates; a field of an Invalid Date is NaN and equals
\* nothing
isSameDay(a, b) ==
  /\ a.valid /\ b.valid
  /\ a.year = b.year /\ a.month = b.month /\ a.date = b.date

\* array.includes(x) for a sequence of numbers and a number x that is not NaN
Includes(array, x) == \E i \in 1..Len(array) : array[i] = x

\* options after "?? [0, 6]" and "?? []" for options that give neither
DefaultOptions == [weekendDays |-> << 0, 6 >>, holidays |-> << >>]

\* isBusinessDay(input, options) for a Date input
isBusinessDay(input, options) ==
  /\ ~(toDate(input).valid /\ Includes(options.weekendDays, toDate(input).day))
  /\ \A i \in 1..Len(options.holidays) :
       ~isSameDay(toDate(input), toDate(options.holidays[i]))

\* the walks keep their Date within WalkWindow days of WalkOrigin: the
\* holidays lie well inside, so that a day outside stands for every later
\* (or earlier) day of its weekday, and a walk that leaves the window goes on
\* a week nearer
WalkWindow == 21

WalkOrigin == DaysFromCivil(2024, 0, 14)

Leaves(d) == d.valid /\ (DayNumber(d) - WalkOrigin) \notin (-WalkWindow)..WalkWindow

Fold(d) ==
  IF ~Leaves(d) THEN d
  ELSE IF DayNumber(d) > WalkOrigin THEN PlusTime(d, -7, 0) ELSE PlusTime(d, 7, 0)

\* Math.abs(days) and the direction of addBusinessDays
MathAbs(n) == IF n < 0 THEN -n ELSE n

AlwaysForward(days) == 1

Direction(days) == IF days >= 0 THEN 1 ELSE -1

\* what addBusinessDays returns when its loop starts with d and remaining;
\* for options that leave no working day it is taken up only with remaining
\* at 0
RECURSIVE AddBusinessDaysFrom(_, _, _, _)
AddBusinessDaysFrom(d, remaining, direction, options) ==
  IF remaining <= 0 THEN d
  ELSE AddBusinessDaysFrom(
         addDays(d, direction),
         IF isBusinessDay(addDays(d, direction), options) THEN remaining - 1
         ELSE remaining,
         direction, options)

addBusinessDays(input, days, options) ==
  AddBusinessDaysFrom(toDate(input), MathAbs(days), Direction(days), options)

\* the loop condition of the function a frame runs
WalkGoesOn(f) ==
  CASE f.op \in {"nextBusinessDay", "prevBusinessDay"} ->
         ~isBusinessDay(f.d, f.options)
    [] f.op = "addBusinessDays" -> f.remaining > 0
    [] f.op = "diffInBusinessDays" ->
         \/ f.direction = 1 /\ TimeBefore(f.d, f.target)
         \/ f.direction = -1 /\ TimeBefore(f.target, f.d)

\* the frame after the loop body, d being the Date the body computed first
AfterBody(f, d) ==
  CASE f.op \in {"nextBusinessDay", "prevBusinessDay"} ->
         [f EXCEPT !.d = Fold(d), !.wrapped = @ \/ Leaves(d)]
    [] f.op = "addBusinessDays" ->
         [f EXCEPT !.d = Fold(d), !.wrapped = @ \/ Leaves(d),
                   !.remaining = IF isBusinessDay(d, f.options) THEN @ - 1 ELSE @]
    [] f.op = "diffInBusinessDays" ->
         [f EXCEPT !.d = d,
                   !.count = IF isBusinessDay(d, f.options) THEN @ + 1 ELSE @]

\* the frame after the return statement
WalkEnd(f) ==
  IF f.op = "diffInBusinessDays"
  THEN [f EXCEPT !.pc = "done", !.difference = f.count * f.direction]
  ELSE [f EXCEPT !.pc = "done", !.result = f.d]

\* the frame of a function from its first statements on
WalkFrame(op, input, days, options, d, direction, target) ==
  [op |-> op, pc |-> "loop", input |-> input, days |-> days,
   options |-> options, d |-> d, remaining |-> MathAbs(days),
   direction |-> direction, target |-> target, count |-> 0, wrapped |-> FALSE,
   result |-> InvalidDate, difference |-> 0, caller |-> ""]

(***************************************************************************)
(* Objects: Dates and wrappers have an identity, and a Date can be changed  *)
(* by whoever holds it                                                      *)
(***************************************************************************)
\* the Date objects by their identity, the wrappers d() made, and the Dates
\* the caller holds: those it made and those that were returned to it
EmptyHeap == [dates |-> << >>, wrappers |-> << >>, held |-> {}]

\* no call made yet
NoFrame == [op |-> ""]

\* new Date(...) of the value v: an object that did not exist
Alloc(h, v) ==
  [heap |-> [h EXCEPT !.dates = Append(@, v)], ref |-> Len(h.dates) + 1]

\* a toDate that returns its argument
toDateSameObject(h, input) == [heap |-> h, ref |-> input]

\* toDate(input) for the Date object input: new Date(input.getTime())
toDateObject(h, input) == Alloc(h, h.dates[input])

\* a function that takes d = toDate(input), c being the heap and d after
\* that, and returns a new Date of the value v for a unit it knows and d for
\* another
NewOrCopy(c, known, v) == IF known THEN Alloc(c.heap, v) ELSE c

\* case 'month' of add from result on, r being the heap and result:
\* result.setDate(targetDay); return result
SetTargetDay(r, d) ==
  [heap |-> [r.heap EXCEPT !.dates[r.ref] = ClampDay(d, @)], ref |-> r.ref]

\* add(input, amount, unit) after const d = toDate(input)
AddFrom(c, amount, unit) ==
  IF unit = "month" /\ c.heap.dates[c.ref].valid
  THEN SetTargetDay(Alloc(c.heap, MonthResult(c.heap.dates[c.ref], amount)),
                    c.heap.dates[c.ref])
  ELSE NewOrCopy(c, unit \in Units, add(c.heap.dates[c.ref], amount, unit))

\* the functions that return a Date, for the Date object input: the heap
\* after the call and the object returned
DateFunctions == {"toDate", "clone", "add", "subtract", "startOf", "endOf"}

CallFrom(c, fn, amount, unit) ==
  CASE fn \in {"toDate", "clone"} -> c
    [] fn = "add" -> AddFrom(c, amount, unit)
    [] fn = "subtract" -> AddFrom(c, -amount, unit)
    [] fn = "startOf" ->
         NewOrCopy(c, unit \in PeriodUnits, startOf(c.heap.dates[c.ref], unit))
    [] fn = "endOf" ->
         NewOrCopy(c, unit \in PeriodUnits, endOf(c.heap.dates[c.ref], unit))

CallDateFunction(h, fn, input, amount, unit) ==
  CallFrom(toDateObject(h, input), fn, amount, unit)

\* d(input) for a Date object: the wrapper keeps date = toDate(input); created
\* is the time value it had then
WrapFrom(c) ==
  [heap |-> [c.heap EXCEPT !.wrappers =
                             Append(@, [date |-> c.ref,
                                        created |-> c.heap.dates[c.ref]])],
   wrapper |-> Len(c.heap.wrappers) + 1]

Wrap(h, input) == WrapFrom(toDateObject(h, input))

\* wrapper.valueOf()
ValueOf(h, w) == h.dates[h.wrappers[w].date]

\* the methods of a wrapper that return a wrapper: d(fn(date, ...))
WrapResult(r) == Wrap(r.heap, r.ref)

WrapperMethod(h, w, fn, amount, unit) ==
  WrapResult(CallDateFunction(h, fn, h.wrappers[w].date, amount, unit))

\* wrapper.date(): new Date(date.getTime())
WrapperDate(h, w) == Alloc(h, h.dates[h.wrappers[w].date])

\* the caller keeps the Date that a call returned
Keep(r) == [r.heap EXCEPT !.held = @ \cup {r.ref}]

(***************************************************************************)
(* State                                                                   *)
(***************************************************************************)
VARIABLES
  pc,        \* which call was made last
  locale,    \* the locale argument
  template,  \* the template argument
  thisYear,  \* the year of the clock, new Date().getFullYear()
  input,     \* the Date given to formatStr
  formatted, \* the outcome of formatStr
  dateStr,   \* the text given to parse
  parsed,    \* the outcome of parse
  caches,    \* formatterCache, monthNamesCache and dayNamesCache
  nextId,    \* the next object that will be created
  inv,       \* the invocations of the cached functions
  calls,     \* the number of calls made of format, parse and the caching functions
  heap,      \* the Date objects and the wrappers that exist
  frame      \* the call of another function of the library: made last, or running

vars ==
  << pc, locale, template, thisYear, input, formatted, dateStr, parsed,
     caches, nextId, inv, calls, heap, frame >>

\* the arguments and results of formatStr and parse
callVars == << pc, locale, template, thisYear, input, formatted, dateStr, parsed >>

\* the caches and what tells of their use
cacheVars == << caches, nextId, inv, calls >>

\* the state of the functions other than formatStr, parse and format
libVars == << heap, frame >>

\* the invocations that may run at once
Procs == {1, 2}

NoFormat == [threw |-> FALSE, error |-> "none", text |-> ""]

NoParse == ParseOutcome("none", "", << >>, "", << >>, NoParts, NaN, InvalidDate)

(***************************************************************************)
(* Inputs                                                                  *)
(***************************************************************************)
\* the templates of the documentation and of the specification's examples,
\* and templates that use every token of the catalog
ExampleTemplates ==
  { "YYYY-MM-DD", "DD/MM/YYYY", "YYYY-MM-DD HH:mm", "DD/MM/YYYY HH:mm",
    "MMMM D, YYYY", "ddd, MMM D", "hh:mm A", "dddd, MMMM D, YYYY",
    "YYYY-MM-DD HH:mm:ss.SSS", "YY-M-D H:m:s", "h:mm a", "hh:mm",
    "MM M", "DD D", "(YYYY)", "(hh) A", "HH hh", "[YYYY]", "hh A h", "(-)",
    "MMMM MMM", "M)", "(D) MMMM" }

\* the pieces bounded templates are made of: tokens and literal characters
Pieces == << "YYYY", "MM", "M", "D", "hh", "A", "-", "(" >>

RECURSIVE PieceTemplates(_)
PieceTemplates(n) ==
  IF n = 0 THEN {""}
  ELSE LET shorter == PieceTemplates(n - 1)
       IN  shorter \cup { t \o Pieces[p] : t \in shorter, p \in 1..Len(Pieces) }

Templates == ExampleTemplates \cup PieceTemplates(MaxPieces)

DateSamples == { << 2024, 0, 15 >>, << 2005, 11, 31 >>, << 1987, 8, 9 >> }

TimeSamples ==
  { << 0, 0, 0, 0 >>, << 9, 5, 7, 45 >>, << 12, 0, 0, 0 >>, << 13, 30, 0, 0 >>,
    << 23, 59, 59, 999 >> }

\* the valid Dates given to formatStr
Instants ==
  { NewDate(d[1], d[2], d[3], t[1], t[2], t[3], t[4]) :
      d \in DateSamples, t \in TimeSamples }

\* writings of the fields, token by token, that need not be a calendar date
RawTables ==
  { [k \in { FormatKeys[i] : i \in 1..Len(FormatKeys) } |->
       CASE k = "YYYY" -> "0050" [] k = "YY" -> "07"
         [] k = "MMMM" -> "june" [] k = "MMM" -> "JUN"
         [] k = "MM" -> "06" [] k = "M" -> "6"
         [] k = "DD" -> "15" [] k = "D" -> "5"
         [] k = "dddd" -> "FRIDAY" [] k = "ddd" -> "fri"
         [] k = "HH" -> "07" [] k = "H" -> "7"
         [] k = "hh" -> "11" [] k = "h" -> "1"
         [] k = "mm" -> "05" [] k = "m" -> "5"
         [] k = "ss" -> "09" [] k = "s" -> "9"
         [] k = "SSS" -> "007"
         [] k = "A" -> "pm" [] k = "a" -> "PM"],
    [k \in { FormatKeys[i] : i \in 1..Len(FormatKeys) } |->
       CASE k = "YYYY" -> "2024" [] k = "YY" -> "99"
         [] k = "MMMM" -> "December" [] k = "MMM" -> "Dec"
         [] k = "MM" -> "13" [] k = "M" -> "0"
         [] k = "DD" -> "45" [] k = "D" -> "0"
         [] k = "dddd" -> "Sunday" [] k = "ddd" -> "Sun"
         [] k = "HH" -> "24" [] k = "H" -> "24"
         [] k = "hh" -> "13" [] k = "h" -> "0"
         [] k = "mm" -> "75" [] k = "m" -> "60"
         [] k = "ss" -> "61" [] k = "s" -> "60"
         [] k = "SSS" -> "999"
         [] k = "A" -> "AM" [] k = "a" -> "am"],
    [k \in { FormatKeys[i] : i \in 1..Len(FormatKeys) } |->
       CASE k = "YYYY" -> "1999" [] k = "YY" -> "00"
         [] k = "MMMM" -> "May" [] k = "MMM" -> "may"
         [] k = "MM" -> "02" [] k = "M" -> "12"
         [] k = "DD" -> "29" [] k = "D" -> "31"
         [] k = "dddd" -> "monday" [] k = "ddd" -> "MON"
         [] k = "HH" -> "19" [] k = "H" -> "0"
         [] k = "hh" -> "00" [] k = "h" -> "0"
         [] k = "mm" -> "00" [] k = "m" -> "0"
         [] k = "ss" -> "00" [] k = "s" -> "0"
         [] k = "SSS" -> "000"
         [] k = "A" -> "PM" [] k = "a" -> "pm"] }

\* s from index i on without its parentheses
RECURSIVE StripParens(_, _)
StripParens(s, i) ==
  IF i > Len(s) THEN ""
  ELSE (IF Ch(s, i) \in {"(", ")"} THEN "" ELSE Ch(s, i)) \o StripParens(s, i + 1)

\* the texts given to parse for a template: texts that cannot match, the
\* template itself, the raw writings, those with a character too many, and
\* those without the parentheses of the template
ParseTexts(tmpl) ==
  LET written == { ReplaceAll(tmpl, 1, FormatPattern, r) : r \in RawTables }
  IN  {"", "not-a-date", tmpl} \cup written
        \cup { w \o "x" : w \in written } \cup { " " \o w : w \in written }
        \cup { StripParens(w, 1) : w \in written }

Init ==
  /\ pc = "idle"
  /\ locale \in Locales
  /\ template \in Templates
  /\ thisYear = 2026
  /\ input = InvalidDate
  /\ formatted = NoFormat
  /\ dateStr = ""
  /\ parsed = NoParse
  /\ caches = EmptyCaches
  /\ nextId = 1
  /\ inv = [p \in Procs |-> NoInvocation]
  /\ calls = 0
  /\ heap = EmptyHeap
  /\ frame = NoFrame

\* formatStr(input, template, locale) for a valid or an Invalid Date
Format ==
  /\ pc = "idle"
  /\ \E i \in Instants \cup {InvalidDate} :
       /\ input' = i
       /\ formatted' = formatStr(i, template, locale)
  /\ pc' = "formatted"
  /\ UNCHANGED << locale, template, thisYear, dateStr, parsed >>
  /\ UNCHANGED << caches, nextId, inv, calls >>
  /\ UNCHANGED libVars

\* parse(dateStr, template, locale) for a text of the caller; the name
\* transforms that run fill monthNamesCache and dayNamesCache
Parse ==
  /\ pc = "idle"
  /\ \E t \in ParseTexts(template) :
       /\ dateStr' = t
       /\ parsed' = parse(t, template, locale, thisYear)
  /\ pc' = "parsed"
  /\ \E after \in {AfterParse(caches, nextId, parsed', locale)} :
       /\ caches' = after.caches
       /\ nextId' = after.nextId
       /\ inv' = [inv EXCEPT ![1] = after.last]
  /\ UNCHANGED << locale, template, thisYear, input, formatted, calls >>
  /\ UNCHANGED libVars

\* parse(formatStr(input, template, locale), template, locale)
ParseFormatted ==
  /\ pc = "formatted"
  /\ ~formatted.threw
  /\ dateStr' = formatted.text
  /\ parsed' = parse(formatted.text, template, locale, thisYear)
  /\ pc' = "roundtrip"
  /\ \E after \in {AfterParse(caches, nextId, parsed', locale)} :
       /\ caches' = after.caches
       /\ nextId' = after.nextId
       /\ inv' = [inv EXCEPT ![1] = after.last]
  /\ UNCHANGED << locale, template, thisYear, input, formatted, calls >>
  /\ UNCHANGED libVars

\* formatStr(parse(dateStr, template, locale), template, locale)
FormatParsed ==
  /\ pc \in {"parsed", "roundtrip"}
  /\ parsed.status = "returned"
  /\ input' = parsed.date
  /\ formatted' = formatStr(parsed.date, template, locale)
  /\ pc' = IF pc = "roundtrip" THEN "roundtrip reformatted" ELSE "reformatted"
  /\ UNCHANGED << locale, template, thisYear, dateStr, parsed >>
  /\ UNCHANGED << caches, nextId, inv, calls >>
  /\ UNCHANGED libVars

Next == Format \/ Parse \/ ParseFormatted \/ FormatParsed

Spec == Init /\ [][Next]_vars

(***************************************************************************)
(* Sequences of calls of format and parse over the caches                  *)
(***************************************************************************)
\* the locales of the calls
CacheLocales == {"en-US", "id-ID"}

\* the options formatDate and formatTime give to format: the locale and the
\* JSON text of the properties after it
PresetOptions ==
  { ",\"year\":\"numeric\",\"month\":\"short\",\"day\":\"numeric\"",
    ",\"hour\":\"2-digit\",\"minute\":\"2-digit\"" }

OptionSamples == [locale : CacheLocales, rest : PresetOptions]

\* templates with and without month and weekday names
CacheTemplates == {"MMMM", "ddd D MMM", "YYYY"}

\* a text that cannot match the template and the text formatStr writes
CacheTexts(tmpl, loc) ==
  {"", formatStr(NewDate(2024, 4, 5, 13, 7, 9, 45), tmpl, loc).text}

CacheInit ==
  /\ pc = "idle"
  /\ locale = "en-US"
  /\ template = ""
  /\ thisYear = 2026
  /\ input = InvalidDate
  /\ formatted = NoFormat
  /\ dateStr = ""
  /\ parsed = NoParse
  /\ caches = EmptyCaches
  /\ nextId = 1
  /\ inv = [p \in Procs |-> NoInvocation]
  /\ calls = 0
  /\ heap = EmptyHeap
  /\ frame = NoFrame

\* format(input, options) as formatDate and formatTime call it: getFormatter(options) is the call that touches the caches
FormatCall ==
  /\ calls < MaxCalls
  /\ \E options \in OptionSamples :
       \E r \in {RunCall(caches, nextId, "getFormatter", options)} :
         /\ caches' = r.caches
         /\ nextId' = r.nextId
         /\ inv' = [inv EXCEPT ![1] = Completed("getFormatter", options, r)]
  /\ calls' = calls + 1
  /\ UNCHANGED callVars
  /\ UNCHANGED libVars

\* parse(dateStr, template, locale) after earlier calls
ParseCall ==
  /\ calls < MaxCalls
  /\ \E loc \in CacheLocales, tmpl \in CacheTemplates :
       \E t \in CacheTexts(tmpl, loc) :
         /\ locale' = loc
         /\ template' = tmpl
         /\ dateStr' = t
         /\ parsed' = parse(t, tmpl, loc, thisYear)
  /\ pc' = "parsed"
  /\ \E after \in {AfterParse(caches, nextId, parsed', locale')} :
       /\ caches' = after.caches
       /\ nextId' = after.nextId
       /\ inv' = [inv EXCEPT ![1] = after.last]
  /\ calls' = calls + 1
  /\ UNCHANGED << thisYear, input, formatted >>
  /\ UNCHANGED libVars

CacheNext == FormatCall \/ ParseCall

CacheSpec == CacheInit /\ [][CacheNext]_vars

(***************************************************************************)
(* Invocations of the caching functions that run at once.  A call of        *)
(* getFormatter, getMonthNamesMap or getDayNamesMap runs to its end in the  *)
(* host; here the lookup, the construction, the insert and the return of an *)
(* invocation are steps of their own, and steps of two invocations may      *)
(* alternate.                                                               *)
(***************************************************************************)
\* the arguments an invocation of op is made with
ArgsOf(op) ==
  IF op = "getFormatter" THEN OptionSamples
  ELSE [locale : CacheLocales, rest : {""}]

\* the key the invocation i looks up
KeyOf(i) == CacheKey(i.op, i.arg)

\* the caller p calls op(arg), once
Invoke(p) ==
  /\ inv[p].pc = "idle"
  /\ \E op \in CacheOps : \E arg \in ArgsOf(op) :
       inv' = [inv EXCEPT ![p] = [NoInvocation EXCEPT !.op = op, !.arg = arg,
                                                      !.pc = "lookup"]]
  /\ calls' = calls + 1
  /\ UNCHANGED << caches, nextId >>
  /\ UNCHANGED callVars
  /\ UNCHANGED libVars

\* let cached = cache.get(key), and the test of it
Lookup(p) ==
  /\ inv[p].pc = "lookup"
  /\ \E found \in {MapGet(caches[CacheOf(inv[p].op)], KeyOf(inv[p]))} :
       inv' = [inv EXCEPT ![p].cached = found, ![p].hit = found # << >>,
                          ![p].pc = IF found # << >> THEN "return" ELSE "build"]
  /\ UNCHANGED << caches, nextId, calls >>
  /\ UNCHANGED callVars
  /\ UNCHANGED libVars

\* cached = the new formatter or the new pair of name maps
Build(p) ==
  /\ inv[p].pc = "build"
  /\ inv' = [inv EXCEPT ![p].cached = << NewValue(inv[p].op, inv[p].arg, nextId) >>,
                        ![p].pc = "set"]
  /\ nextId' = nextId + 1
  /\ UNCHANGED << caches, calls >>
  /\ UNCHANGED callVars
  /\ UNCHANGED libVars

\* cache.set(key, cached)
Set(p) ==
  /\ inv[p].pc = "set"
  /\ caches' = [caches EXCEPT ![CacheOf(inv[p].op)] =
                               MapSet(@, KeyOf(inv[p]), inv[p].cached[1])]
  /\ inv' = [inv EXCEPT ![p].pc = "return"]
  /\ UNCHANGED << nextId, calls >>
  /\ UNCHANGED callVars
  /\ UNCHANGED libVars

\* return cached
Return(p) ==
  /\ inv[p].pc = "return"
  /\ inv' = [inv EXCEPT ![p].result = inv[p].cached, ![p].pc = "done"]
  /\ UNCHANGED << caches, nextId, calls >>
  /\ UNCHANGED callVars
  /\ UNCHANGED libVars

RaceNext ==
  \E p \in Procs : Invoke(p) \/ Lookup(p) \/ Build(p) \/ Set(p) \/ Return(p)

RaceSpec == CacheInit /\ [][RaceNext]_vars

(***************************************************************************)
(* formatStr and parse for locale tags of every kind                       *)
(***************************************************************************)
\* supported tags, well-formed tags without data, and malformed tags
LocaleTags == {"en-US", "id-ID", "xx-XX", "tlh", "en_US", "", "not a locale"}

LocaleTemplates == {"MMMM D, YYYY", "ddd, MMM D", "YYYY-MM-DD", "hh:mm A"}

LocaleInit ==
  /\ pc = "idle"
  /\ locale \in LocaleTags
  /\ template \in LocaleTemplates
  /\ thisYear = 2026
  /\ input = InvalidDate
  /\ formatted = NoFormat
  /\ dateStr = ""
  /\ parsed = NoParse
  /\ caches = EmptyCaches
  /\ nextId = 1
  /\ inv = [p \in Procs |-> NoInvocation]
  /\ calls = 0
  /\ heap = EmptyHeap
  /\ frame = NoFrame

LocaleSpec == LocaleInit /\ [][Next]_vars

(***************************************************************************)
(* formatStr and parse for templates that are runs of token letters         *)
(***************************************************************************)
\* the letters tokens are made of
TokenLetters == {"Y", "M", "D", "d", "H", "h", "m", "s", "S", "A", "a"}

\* a run is at most MaxRun letters long
MaxRun == 7

\* runs of one letter, and templates of several runs
RunTemplates ==
  { Repeat(c, n) : c \in TokenLetters, n \in 1..MaxRun }
    \cup { "YYYYYMMMMMDDD", "ddddd MMMMMM YYY", "hhhmmmsssSSSS a", "YYYMMMMMMM" }

TokenInit ==
  /\ pc = "idle"
  /\ locale = "en-US"
  /\ template \in RunTemplates
  /\ thisYear = 2026
  /\ input = InvalidDate
  /\ formatted = NoFormat
  /\ dateStr = ""
  /\ parsed = NoParse
  /\ caches = EmptyCaches
  /\ nextId = 1
  /\ inv = [p \in Procs |-> NoInvocation]
  /\ calls = 0
  /\ heap = EmptyHeap
  /\ frame = NoFrame

TokenSpec == TokenInit /\ [][Next]_vars

(***************************************************************************)
(* Calls on Date objects and wrappers, by a caller that may change the      *)
(* Dates it holds                                                           *)
(***************************************************************************)
\* formatStr, parse and the caches before any call
NothingCalled ==
  /\ pc = "idle"
  /\ locale = "en-US"
  /\ template = ""
  /\ thisYear = 2026
  /\ input = InvalidDate
  /\ formatted = NoFormat
  /\ dateStr = ""
  /\ parsed = NoParse
  /\ caches = EmptyCaches
  /\ nextId = 1
  /\ inv = [p \in Procs |-> NoInvocation]
  /\ calls = 0

\* the time values of the caller's Dates
ObjectDates ==
  { NewDate(2024, 0, 31, 13, 7, 9, 45), NewDate(2023, 11, 31, 23, 59, 59, 999),
    InvalidDate }

\* the units given: two that every function knows or not, and one no
\* function knows
ObjectUnits == {"month", "day", "fortnight"}

\* the caller holds one Date
ObjectInit ==
  /\ NothingCalled
  /\ \E v \in ObjectDates :
       heap = [dates |-> << v >>, wrappers |-> << >>, held |-> {1}]
  /\ frame = NoFrame

\* toDate, clone, add, subtract, startOf or endOf of a Date the caller holds
CallReturningDate ==
  /\ Len(heap.dates) < MaxObjects
  /\ \E ref \in heap.held, fn \in DateFunctions, unit \in ObjectUnits :
       \E r \in {CallDateFunction(heap, fn, ref, 1, unit)} :
         /\ heap' = Keep(r)
         /\ frame' = [op |-> fn, input |-> ref, wrapper |-> 0, result |-> r.ref]
  /\ UNCHANGED << callVars, cacheVars >>

\* d(input) for a Date the caller holds
CallWrap ==
  /\ Len(heap.dates) < MaxObjects
  /\ \E ref \in heap.held :
       \E r \in {Wrap(heap, ref)} :
         /\ heap' = r.heap
         /\ frame' = [op |-> "d", input |-> ref, wrapper |-> r.wrapper, result |-> 0]
  /\ UNCHANGED << callVars, cacheVars >>

\* wrapper.clone(), add, subtract, startOf or endOf
CallWrapperMethod ==
  /\ Len(heap.dates) < MaxObjects
  /\ \E w \in 1..Len(heap.wrappers), fn \in DateFunctions \ {"toDate"},
        unit \in ObjectUnits :
       \E r \in {WrapperMethod(heap, w, fn, 1, unit)} :
         /\ heap' = r.heap
         /\ frame' = [op |-> "wrapper", input |-> w, wrapper |-> r.wrapper,
                      result |-> 0]
  /\ UNCHANGED << callVars, cacheVars >>

\* wrapper.date()
CallWrapperDate ==
  /\ Len(heap.dates) < MaxObjects
  /\ \E w \in 1..Len(heap.wrappers) :
       \E r \in {WrapperDate(heap, w)} :
         /\ heap' = Keep(r)
         /\ frame' = [op |-> "date", input |-> w, wrapper |-> 0, result |-> r.ref]
  /\ UNCHANGED << callVars, cacheVars >>

\* the caller sets the time of a Date it holds
CallerSetsTime ==
  /\ \E ref \in heap.held, v \in ObjectDates :
       /\ heap' = [heap EXCEPT !.dates[ref] = v]
       /\ frame' = [op |-> "setTime", input |-> ref, wrapper |-> 0, result |-> 0]
  /\ UNCHANGED << callVars, cacheVars >>

ObjectNext ==
  \/ CallReturningDate
  \/ CallWrap
  \/ CallWrapperMethod
  \/ CallWrapperDate
  \/ CallerSetsTime

ObjectSpec == ObjectInit /\ [][ObjectNext]_vars

(***************************************************************************)
(* Calls of the functions that compute a value from their arguments         *)
(***************************************************************************)
\* dates at the end of long months, on a leap day, in the middle of a month
\* and in the first century
CalendarDates ==
  { NewDate(2024, 0, 31, 13, 7, 9, 45), NewDate(2023, 0, 31, 0, 0, 0, 0),
    NewDate(2024, 1, 29, 23, 59, 59, 999), NewDate(2023, 2, 31, 6, 30, 0, 0),
    NewDate(2023, 11, 31, 12, 0, 0, 0), NewDate(2005, 7, 15, 10, 30, 0, 0),
    DateAt(DaysFromCivil(50, 0, 31), 12 * 3600000) }

\* the amounts given to add
CalendarAmounts == (-14..14) \cup {-1950, -2024, 1200}

CalendarInit ==
  /\ NothingCalled
  /\ heap = EmptyHeap
  /\ frame = NoFrame

\* add(input, amount, 'month') and add(input, amount, 'year')
CallAdd ==
  /\ frame.op = ""
  /\ \E d \in CalendarDates, n \in CalendarAmounts, unit \in {"month", "year"} :
       frame' = [op |-> "add", input |-> d, amount |-> n, unit |-> unit,
                 result |-> add(d, n, unit)]
  /\ UNCHANGED << callVars, cacheVars, heap >>

\* the first and last days of years with and without a leap day, the ends of
\* the first week and a day in the middle, at the ends and inside of the day
WeekDates ==
  { NewDate(y, md[1], md[2], t[1], t[2], t[3], t[4]) :
      y \in {2023, 2024},
      md \in { << 0, 1 >>, << 0, 7 >>, << 0, 8 >>, << 5, 15 >>, << 11, 30 >>,
               << 11, 31 >> },
      t \in { << 0, 0, 0, 0 >>, << 0, 0, 0, 1 >>, << 12, 0, 0, 0 >>,
              << 23, 59, 59, 999 >> } }

\* weekOfYear(input)
CallWeekOfYear ==
  /\ frame.op = ""
  /\ \E d \in WeekDates :
       frame' = [op |-> "weekOfYear", input |-> d, result |-> weekOfYear(d)]
  /\ UNCHANGED << callVars, cacheVars, heap >>

\* the inputs of d and what the clock may show
DateTexts == {"2024-01-15T10:30:00", "1970-01-01T00:00:00", "2024-02-29", "", "soon"}

Timestamps == {0, 1, -1, 86400000, -86400000, 1705314600, NaN}

WrapInputs ==
  {NoInput}
    \cup { DateValue(x) : x \in CalendarDates \cup {InvalidDate} }
    \cup { NumberValue(n) : n \in Timestamps }
    \cup { StringValue(t) : t \in DateTexts }

Clocks ==
  { DateAt(DaysFromCivil(2026, 10, 1), 35000000),
    DateAt(DaysFromCivil(2026, 10, 1), 35000001) }

\* d(input) and d(): result is the time value that valueOf() of the wrapper
\* returns
CallD ==
  /\ frame.op = ""
  /\ \E v \in WrapInputs, now \in Clocks :
       frame' = [op |-> "d", input |-> v, now |-> now,
                 result |-> WrappedDate(v, now)]
  /\ UNCHANGED << callVars, cacheVars, heap >>

\* the counts of milliseconds given to duration, as whole days and the
\* milliseconds left over
DurationDays == 0..40 \cup {59, 60, 364, 365, 366, 400, 730, 800}

DurationMs == {0, 1, 999, 3661000, 86399999}

\* duration(totalMs)
CallDuration ==
  /\ frame.op = ""
  /\ \E days \in DurationDays, ms \in DurationMs :
       frame' = [op |-> "duration", days |-> days, ms |-> ms,
                 result |-> duration(days, ms)]
  /\ UNCHANGED << callVars, cacheVars, heap >>

CalendarNext == CallAdd \/ CallWeekOfYear \/ CallD \/ CallDuration

CalendarSpec == CalendarInit /\ [][CalendarNext]_vars

(***************************************************************************)
(* BusinessSpec: the business-day functions run statement by statement; a  *)
(* call that was made runs on (weak fairness of the loop and of the        *)
(* return), a caller need not call.  After addBusinessDays(a, n, options)  *)
(* returned r, the caller may ask for diffInBusinessDays(a, r, options).   *)
(***************************************************************************)
BusinessDates ==
  { DateAt(DaysFromCivil(2024, 0, 12), 37800000),
    DateAt(DaysFromCivil(2024, 0, 13), 0),
    DateAt(DaysFromCivil(2024, 0, 15), 86399999),
    InvalidDate }

WeekendLists ==
  { << 0, 6 >>, << >>, << 5, 6 >>, << 1, 2, 3, 4, 5, 6 >>,
    << 0, 1, 2, 3, 4, 5, 6 >> }

HolidayLists ==
  { << >>,
    << DateAt(DaysFromCivil(2024, 0, 15), 0),
       DateAt(DaysFromCivil(2024, 0, 16), 43200000) >> }

BusinessOptions ==
  {DefaultOptions} \cup
  { [weekendDays |-> w, holidays |-> h] : w \in WeekendLists, h \in HolidayLists }

DayCounts == -3..3

BusinessInit ==
  /\ NothingCalled
  /\ heap = EmptyHeap
  /\ frame = NoFrame

\* nextBusinessDay(input, options) up to its loop
CallNextBusinessDay ==
  /\ frame.op = ""
  /\ \E a \in BusinessDates, o \in BusinessOptions :
       frame' = WalkFrame("nextBusinessDay", a, 1, o, addDays(a, 1), 1,
                          InvalidDate)
  /\ UNCHANGED << callVars, cacheVars, heap >>

\* prevBusinessDay(input, options) up to its loop
CallPrevBusinessDay ==
  /\ frame.op = ""
  /\ \E a \in BusinessDates, o \in BusinessOptions :
       frame' = WalkFrame("prevBusinessDay", a, 1, o, subDays(a, 1), -1,
                          InvalidDate)
  /\ UNCHANGED << callVars, cacheVars, heap >>

\* addBusinessDays(input, days, options) up to its loop
CallAddBusinessDays ==
  /\ frame.op = ""
  /\ \E a \in BusinessDates, n \in DayCounts, o \in BusinessOptions :
       frame' = WalkFrame("addBusinessDays", a, n, o, toDate(a), Direction(n),
                          InvalidDate)
  /\ UNCHANGED << callVars, cacheVars, heap >>

\* subBusinessDays(input, days, options): addBusinessDays(input, -days,
\* options) up to its loop
CallSubBusinessDays ==
  /\ frame.op = ""
  /\ \E a \in BusinessDates, n \in DayCounts, o \in BusinessOptions :
       frame' = [WalkFrame("addBusinessDays", a, -n, o, toDate(a),
                           Direction(-n), InvalidDate)
                 EXCEPT !.caller = "subBusinessDays"]
  /\ UNCHANGED << callVars, cacheVars, heap >>

\* start <= end for two Dates
NotAfter(a, b) == a.valid /\ b.valid /\ ~TimeBefore(b, a)

\* diffInBusinessDays(a, r, options) up to its loop, r being what
\* addBusinessDays(a, n, options) returned
CallDiffInBusinessDays ==
  /\ frame.op = "addBusinessDays" /\ frame.pc = "done"
  /\ frame' = [WalkFrame("diffInBusinessDays", frame.input, frame.days,
                         frame.options, toDate(frame.input),
                         IF NotAfter(toDate(frame.input), toDate(frame.result))
                         THEN 1 ELSE -1,
                         toDate(frame.result))
               EXCEPT !.wrapped = frame.wrapped, !.caller = frame.caller]
  /\ UNCHANGED << callVars, cacheVars, heap >>

\* the loop condition holds: one round of the loop
WalkStep ==
  /\ frame.op # "" /\ frame.pc = "loop"
  /\ WalkGoesOn(frame)
  /\ \E d \in {addDays(frame.d, frame.direction)} : frame' = AfterBody(frame, d)
  /\ UNCHANGED << callVars, cacheVars, heap >>

\* the loop condition fails: the function returns
WalkReturn ==
  /\ frame.op # "" /\ frame.pc = "loop"
  /\ ~WalkGoesOn(frame)
  /\ frame' = WalkEnd(frame)
  /\ UNCHANGED << callVars, cacheVars, heap >>

BusinessNext ==
  \/ CallNextBusinessDay
  \/ CallPrevBusinessDay
  \/ CallAddBusinessDays
  \/ CallSubBusinessDays
  \/ CallDiffInBusinessDays
  \/ WalkStep
  \/ WalkReturn

BusinessSpec ==
  /\ BusinessInit
  /\ [][BusinessNext]_vars
  /\ WF_vars(WalkStep)
  /\ WF_vars(WalkReturn)

(***************************************************************************)
(* IntervalSpec: interval(start, end).eachDay() run from one yield to the  *)
(* next.  The one who iterates (a for-of loop, the spread of               *)
(* eachDayOfInterval) asks for the next value until the generator is done  *)
(* (weak fairness of GeneratorNext), and may set the time of any Date that *)
(* was yielded.                                                            *)
(***************************************************************************)
\* an interval is drawn for start and end whose days are at most MaxDays
\* apart, or with an Invalid Date
MaxDays == 3

IntervalDates ==
  { NewDate(2024, 0, 30, 15, 0, 0, 0), NewDate(2024, 0, 31, 0, 0, 0, 0),
    NewDate(2024, 1, 1, 23, 59, 59, 999), NewDate(2024, 1, 2, 6, 0, 0, 0),
    DateAt(DaysFromCivil(50, 0, 31), 12 * 3600000), InvalidDate }

DaysApart(a, b) == DayNumber(startOf(b, "day")) - DayNumber(startOf(a, "day"))

IntervalPairs ==
  { p \in IntervalDates \X IntervalDates :
      p[1].valid /\ p[2].valid => DaysApart(p[1], p[2]) \in (-MaxDays)..MaxDays }

\* the values that the one who iterates may give a yielded Date
YieldedChanges == { NewDate(2030, 5, 15, 8, 0, 0, 0), InvalidDate }

IntervalInit ==
  /\ NothingCalled
  /\ heap = EmptyHeap
  /\ frame = NoFrame

\* interval(start, end).eachDay(): s and e are made, the body of the
\* generator has not started
CallEachDay ==
  /\ frame.op = ""
  /\ \E p \in IntervalPairs :
       /\ heap' = [dates |-> << toDate(p[1]), toDate(p[2]) >>,
                   wrappers |-> << >>, held |-> {1, 2}]
       /\ frame' = [op |-> "eachDay", pc |-> "created", start |-> p[1],
                    end |-> p[2], s |-> 1, e |-> 2, current |-> 0,
                    endDay |-> 0, yielded |-> << >>]
  /\ UNCHANGED << callVars, cacheVars >>

\* let current = startOf(s, 'day'); const endDay = startOf(e, 'day')
GeneratorStart(h, f) ==
  [heap |-> Alloc(Alloc(h, startOf(h.dates[f.s], "day")).heap,
                  startOf(h.dates[f.e], "day")).heap,
   current |-> Len(h.dates) + 1, endDay |-> Len(h.dates) + 2]

\* current = addDays(current, 1)
GeneratorAdvance(h, f) ==
  [heap |-> Alloc(h, addDays(h.dates[f.current], 1)).heap,
   current |-> Len(h.dates) + 1, endDay |-> f.endDay]

\* a yield of current itself
SameDateAs(h, ref) == [heap |-> h, ref |-> ref]

\* new Date(current)
NewDateOf(h, ref) == Alloc(h, h.dates[ref])

\* next() of the generator: from its start or from the last yield up to the
\* next yield or to the end of the loop
GeneratorNext ==
  /\ frame.op = "eachDay" /\ frame.pc \in {"created", "yielded"}
  /\ \E g \in { IF frame.pc = "created" THEN GeneratorStart(heap, frame)
                 ELSE GeneratorAdvance(heap, frame) } :
       IF NotAfter(g.heap.dates[g.current], g.heap.dates[g.endDay])
       THEN \E y \in {NewDateOf(g.heap, g.current)} :
              /\ heap' = Keep(y)
              /\ frame' = [frame EXCEPT
                             !.pc = "yielded", !.current = g.current,
                             !.endDay = g.endDay,
                             !.yielded = Append(@, [ref |-> y.ref,
                                                    value |-> y.heap.dates[y.ref]])]
       ELSE /\ heap' = g.heap
            /\ frame' = [frame EXCEPT !.pc = "done", !.current = g.current,
                                      !.endDay = g.endDay]
  /\ UNCHANGED << callVars, cacheVars >>

\* the one who iterates sets the time of a Date that was yielded
CallerSetsYielded ==
  /\ frame.op = "eachDay"
  /\ \E i \in 1..Len(frame.yielded), v \in YieldedChanges :
       /\ heap.dates[frame.yielded[i].ref] # v
       /\ heap' = [heap EXCEPT !.dates[frame.yielded[i].ref] = v]
  /\ UNCHANGED << callVars, cacheVars, frame >>

IntervalNext == CallEachDay \/ GeneratorNext \/ CallerSetsYielded

IntervalSpec ==
  /\ IntervalInit
  /\ [][IntervalNext]_vars
  /\ WF_vars(GeneratorNext)

(***************************************************************************)
(* Properties                                                              *)
(***************************************************************************)
\* a call of parse has been made; parsed is its outcome for dateStr
Parsed == parsed.status # "none"

\* the pattern was compiled: new RegExp did not throw
Compiled == Parsed /\ parsed.error # "SyntaxError"

TokenOf(found, k) == found[k].def.token

HasToken(found, tokens) == \E k \in 1..Len(found) : TokenOf(found, k) \in tokens

\* the 1-based indices of the template a located token covers
SpanOf(t) == (t.pos + 1)..(t.pos + Len(t.def.token))

Separators == {" ", "-", ":", ",", "/", "."}

\* the template is tokens with separators between them and nothing else
PlainTemplate(tmpl, found) ==
  /\ \A i \in 1..Len(tmpl) :
       (\E k \in 1..Len(found) : i \in SpanOf(found[k])) \/ Ch(tmpl, i) \in Separators
  /\ \A k \in 1..Len(found) :
       found[k].pos + Len(TokenOf(found, k)) = Len(tmpl)
         \/ Ch(tmpl, found[k].pos + Len(TokenOf(found, k)) + 1) \in Separators

\* the year of i can be written with the year tokens of the template
Representable(i, found) ==
  /\ HasToken(found, {"YYYY"}) => i.year \in 1000..9999
  /\ HasToken(found, {"YY"}) => i.year \in 2000..2099

\* the field a token expresses is the same in the Dates i and d
FieldReproduced(token, found, i, d) ==
  CASE token \in {"YYYY", "YY"} -> d.year = i.year
    [] token \in {"MMMM", "MMM", "MM", "M"} -> d.month = i.month
    [] token \in {"DD", "D"} -> d.date = i.date
    [] token \in {"HH", "H"} -> d.hours = i.hours
    [] token \in {"hh", "h"} -> HasToken(found, {"A", "a"}) => d.hours = i.hours
    [] token \in {"mm", "m"} -> d.minutes = i.minutes
    [] token \in {"ss", "s"} -> d.seconds = i.seconds
    [] token = "SSS" -> d.ms = i.ms
    [] OTHER -> TRUE

\* C1: parsing the text formatStr wrote for a Date with the same template
\* gives a valid Date with every field the template expresses unchanged
\* (templates of tokens and separators, years the year tokens can write)
RoundTripReproducesFields ==
  (/\ pc = "roundtrip"
   /\ PlainTemplate(template, parsed.foundTokens)
   /\ Representable(input, parsed.foundTokens))
  => /\ parsed.status = "returned"
     /\ parsed.date.valid
     /\ \A k \in 1..Len(parsed.foundTokens) :
          FieldReproduced(TokenOf(parsed.foundTokens, k), parsed.foundTokens,
                          input, parsed.date)

\* C2: a text the anchored pattern does not match in full gives the Invalid
\* Date and no field is composed; a match is always a match of the whole text
NoMatchGivesInvalidDate ==
  Compiled =>
    /\ parsed.match = << >> =>
         /\ parsed.status = "returned"
         /\ parsed.date = InvalidDate
         /\ parsed.parts = NoParts
    /\ parsed.match # << >> => parsed.match[1] = dateStr

NoMatchWitness ==
  /\ pc = "parsed"
  /\ template = "YYYY-MM-DD"
  /\ dateStr = "not-a-date"
  /\ parsed.status = "returned"
  /\ parsed.date = InvalidDate

\* C3: parse never throws, whatever the text and the template
ParseNeverThrows == Parsed => parsed.status = "returned"

\* C4: formatStr never throws, whatever the Date
FormatStrNeverThrows == ~formatted.threw

\* every composed field is in its calendar range, so that composing the Date
\* carries nothing from one field into another
FieldsInRange ==
  /\ parsed.parts.month \in 0..11
  /\ parsed.parts.day \in 1..28
  /\ parsed.hour \in 0..23
  /\ parsed.parts.minute \in 0..59
  /\ parsed.parts.second \in 0..59
  /\ parsed.parts.ms \in 0..999

\* C5: with a 12-hour token and a meridiem token in the template and a
\* 12-hour value h in 1..12, the hour is 0 for 12 AM, h + 12 for PM with
\* h # 12, and h otherwise, AM and PM being the value 0 and 1 the meridiem
\* token stored; it is the hour of the Date when no other field carries
MeridiemResolution ==
  (/\ Parsed
   /\ parsed.match # << >>
   /\ parsed.status = "returned"
   /\ HasToken(parsed.foundTokens, {"hh", "h"})
   /\ HasToken(parsed.foundTokens, {"A", "a"})
   /\ parsed.parts.hour12 \in 1..12)
  => LET h  == parsed.parts.hour12
         am == parsed.parts.meridiem = 0
         pm == parsed.parts.meridiem = 1
     IN  /\ am \/ pm
         /\ (h = 12 /\ am) => parsed.hour = 0
         /\ (h # 12 /\ pm) => parsed.hour = h + 12
         /\ ~(h = 12 /\ am) /\ ~(h # 12 /\ pm) => parsed.hour = h
         /\ FieldsInRange => parsed.date.hours = parsed.hour

MidnightWitness ==
  /\ Parsed
  /\ template = "hh:mm A"
  /\ dateStr = "12:00 AM"
  /\ parsed.parts.hour12 = 12
  /\ parsed.parts.meridiem = 0
  /\ parsed.hour = 0
  /\ parsed.date.hours = 0

\* the index of the parenthesis that closes a group, scanning from i at
\* nesting depth, or 0
RECURSIVE CloseOf(_, _, _)
CloseOf(p, i, depth) ==
  IF i > Len(p) THEN 0
  ELSE CASE Ch(p, i) = "\\" -> CloseOf(p, i + 2, depth)
         [] Ch(p, i) = "(" -> CloseOf(p, i + 1, depth + 1)
         [] Ch(p, i) = ")" -> IF depth = 0 THEN i ELSE CloseOf(p, i + 1, depth - 1)
         [] OTHER -> CloseOf(p, i + 1, depth)

\* the capture groups of the pattern p from index i, each as its text, in
\* the order of their opening parentheses
RECURSIVE GroupSources(_, _)
GroupSources(p, i) ==
  IF i > Len(p) THEN << >>
  ELSE CASE Ch(p, i) = "\\" -> GroupSources(p, i + 2)
         [] Ch(p, i) = "(" ->
              << Slice(p, i, CloseOf(p, i + 1, 0)) >> \o GroupSources(p, i + 1)
         [] OTHER -> GroupSources(p, i + 1)

\* C6: the pattern has one capture group per located token, and the i-th
\* group is the fragment of the i-th located token
CaptureGroupsAligned ==
  Compiled =>
    GroupSources(parsed.source, 1)
      = [k \in 1..Len(parsed.foundTokens) |-> parsed.foundTokens[k].def.regex]

\* C7: a template without tokens matches the texts equal to it up to letter
\* case, and no other text
TokenFreeTemplateIsLiteral ==
  (Parsed /\ parsed.foundTokens = << >>)
  => /\ parsed.status = "returned"
     /\ parsed.match # << >> <=> toLowerCase(dateStr) = toLowerCase(template)

\* the token texts of the catalog
CatalogTokens(loc) ==
  LET defs == tokenDefs(loc)
  IN  { defs[k].token : k \in 1..Len(defs) }

\* C8: located tokens have distinct positions and disjoint spans, each span
\* of the template reads as its token, and every place of the template that
\* reads as a catalog token is covered by a located token at least as long
LocatedTokensClaimSpans ==
  Parsed =>
    LET found == parsed.foundTokens
    IN  /\ \A i, j \in 1..Len(found) :
             i # j => /\ found[i].pos # found[j].pos
                      /\ SpanOf(found[i]) \cap SpanOf(found[j]) = {}
        /\ \A i \in 1..Len(found) :
             Slice(template, found[i].pos + 1, found[i].pos + Len(TokenOf(found, i)))
               = TokenOf(found, i)
        /\ \A tok \in CatalogTokens(locale) :
             \A q \in 1..Len(template) :
               Slice(template, q, q + Len(tok) - 1) = tok
                 => \E i \in 1..Len(found) :
                      /\ Len(TokenOf(found, i)) >= Len(tok)
                      /\ SpanOf(found[i]) \cap (q..(q + Len(tok) - 1)) # {}

LongerTokenWitness ==
  /\ Parsed
  /\ template = "DD D"
  /\ Len(parsed.foundTokens) = 2
  /\ parsed.foundTokens[1].pos = 0
  /\ TokenOf(parsed.foundTokens, 1) = "DD"
  /\ parsed.foundTokens[2].pos = 3
  /\ TokenOf(parsed.foundTokens, 2) = "D"

\* the longest key of the value table that the template reads at index i,
\* or "" when it reads none
LongestTokenAt(tmpl, i) ==
  LET here == { FormatKeys[k] : k \in 1..Len(FormatKeys) }
      hits == { k \in here : Slice(tmpl, i, i + Len(k) - 1) = k }
  IN  IF hits = {} THEN ""
      ELSE CHOOSE k \in hits : \A o \in hits : Len(k) >= Len(o)

\* one scan of the template from index i: the value of the longest token
\* where there is one, the character itself where there is none
RECURSIVE LongestTokenScan(_, _, _)
LongestTokenScan(tmpl, i, values) ==
  IF i > Len(tmpl) THEN ""
  ELSE LET tok == LongestTokenAt(tmpl, i)
       IN  IF tok = "" THEN Ch(tmpl, i) \o LongestTokenScan(tmpl, i + 1, values)
           ELSE values[tok] \o LongestTokenScan(tmpl, i + Len(tok), values)

\* C9: the text formatStr returns is the left-to-right scan of the template
\* that substitutes the longest token at each position and copies the rest
FormatIsLongestTokenScan ==
  (formatted.error = "")
  => formatted.text = LongestTokenScan(template, 1, FormatTokens(input, locale))

LongFormatWitness ==
  /\ pc = "formatted"
  /\ template = "dddd, MMMM D, YYYY"
  /\ input = NewDate(2024, 0, 15, 0, 0, 0, 0)
  /\ formatted.text = "Monday, January 15, 2024"

\* token k is the last located token that feeds its field
LastOfField(found, k) ==
  \A j \in (k + 1)..Len(found) : found[j].def.field # found[k].def.field

\* the number captured for located token k
CapturedNumber(k) ==
  LET raw == MatchAt(parsed.match, k)
  IN  IF raw = << >> THEN NaN ELSE parseInt(raw[1])

\* C10: on a match the Date has the year captured for YYYY, 2000 plus the
\* number captured for YY, the month captured for MM and M less one, and the
\* day, hour, minute, second and millisecond captured for their tokens
NumericTransformsExact ==
  (/\ Parsed
   /\ parsed.status = "returned"
   /\ parsed.match # << >>
   /\ FieldsInRange)
  => \A k \in 1..Len(parsed.foundTokens) :
       LET found == parsed.foundTokens
           token == TokenOf(found, k)
           n     == CapturedNumber(k)
           d     == parsed.date
       IN  (LastOfField(found, k) /\ ~IsNaN(n)) =>
             CASE token = "YYYY" -> d.year = n
               [] token = "YY" -> d.year = 2000 + n
               [] token \in {"MM", "M"} -> d.month = n - 1
               [] token \in {"DD", "D"} -> d.date = n
               [] token \in {"HH", "H"} ->
                    ~HasToken(found, {"hh", "h"}) => d.hours = n
               [] token \in {"mm", "m"} -> d.minutes = n
               [] token \in {"ss", "s"} -> d.seconds = n
               [] token = "SSS" -> d.ms = n
               [] OTHER -> TRUE

RECURSIVE UpperFrom(_, _)
UpperFrom(s, i) == IF i > Len(s) THEN "" ELSE ToUpperCh(Ch(s, i)) \o UpperFrom(s, i + 1)

\* the writings of s in lower case and in upper case
CaseVariants(s) == { toLowerCase(s), UpperFrom(s, 1) }

\* C12: two texts that differ only in letter case both fail to match or
\* both parse to the same Date, meridiem texts included
CaseInsensitiveEndToEnd ==
  Parsed =>
    \A v \in CaseVariants(dateStr) :
      LET other == parse(v, template, locale, thisYear)
      IN  /\ other.status = parsed.status
          /\ other.date = parsed.date

\* the hour that a 12-hour value h and a meridiem (0 for AM, 1 for PM) give
HourOf12(h, meridiem) ==
  IF h = 12 /\ meridiem = 0 THEN 0
  ELSE IF h # 12 /\ meridiem = 1 THEN h + 12
  ELSE h

\* C13: with a 12-hour token and a meridiem token in the template, the hour
\* is given by the captured 12-hour value and the meridiem alone, for every
\* captured value, 0 included
HourFrom12AndMeridiemAlone ==
  (/\ Parsed
   /\ parsed.status = "returned"
   /\ parsed.match # << >>
   /\ HasToken(parsed.foundTokens, {"hh", "h"})
   /\ HasToken(parsed.foundTokens, {"A", "a"})
   /\ parsed.parts.hour12 >= 0
   /\ parsed.parts.meridiem \in {0, 1})
  => parsed.hour = HourOf12(parsed.parts.hour12, parsed.parts.meridiem)

\* C14: with a 12-hour token and no meridiem token in the template, the hour
\* is the captured 12-hour value unchanged
HourFrom12WithoutMeridiem ==
  (/\ Parsed
   /\ parsed.status = "returned"
   /\ parsed.match # << >>
   /\ HasToken(parsed.foundTokens, {"hh", "h"})
   /\ ~HasToken(parsed.foundTokens, {"A", "a"})
   /\ parsed.parts.hour12 >= 0)
  => parsed.hour = parsed.parts.hour12

\* the text a template gives when each token is written as table says
WrittenWith(tmpl, table) == ReplaceAll(tmpl, 1, FormatPattern, table)

\* the tables of token writings the texts of the model are written from
TextTables == RawTables \cup { FormatTokens(i, locale) : i \in Instants }

\* table with the names of weekday d (1 for Sunday) for its weekday tokens
WeekdayVariant(table, d) ==
  [table EXCEPT !["dddd"] = DayNames(locale, "long")[d],
                !["ddd"] = DayNames(locale, "short")[d]]

\* C15: with a weekday token in the template, texts that differ only in the
\* weekday name parse to the same Date; a weekday that contradicts the date
\* is neither rejected nor used
WeekdayIgnored ==
  (/\ Parsed
   /\ parsed.status = "returned"
   /\ parsed.match # << >>
   /\ HasToken(parsed.foundTokens, {"dddd", "ddd"}))
  => \A table \in TextTables :
       dateStr = WrittenWith(template, table) =>
         \A d \in 1..7 :
           LET other == parse(WrittenWith(template, WeekdayVariant(table, d)),
                              template, locale, thisYear)
           IN  /\ other.status = "returned"
               /\ other.date = parsed.date

ContradictingWeekdayWitness ==
  /\ Parsed
  /\ template = "dddd, MMMM D, YYYY"
  /\ dateStr = "Sunday, December 0, 2024"
  /\ parsed.parts.weekday = 0
  /\ parsed.date.valid
  /\ parsed.date.day # 0

\* the names a name token is looked up in; << >> for the other tokens
TokenNames(token, loc) ==
  CASE token = "MMMM" -> MonthNames(loc, "long")
    [] token = "MMM" -> MonthNames(loc, "short")
    [] token = "dddd" -> DayNames(loc, "long")
    [] token = "ddd" -> DayNames(loc, "short")
    [] OTHER -> << >>

\* located token k is a name token whose captured text is no name of the
\* locale, letter case apart
CapturedUnknownName(k) ==
  LET token == TokenOf(parsed.foundTokens, k)
      raw   == MatchAt(parsed.match, k)
  IN  /\ token \in {"MMMM", "MMM", "dddd", "ddd"}
      /\ raw # << >>
      /\ NameIndex(TokenNames(token, locale), toLowerCase(raw[1])) = -1

FormatIdempotentOverRoundTrip ==
  /\ pc = "roundtrip" => parsed.status = "returned"
  /\ pc = "roundtrip reformatted" => (~formatted.threw /\ formatted.text = dateStr)

\* C18: with the empty template parse gives January 1 of the current year at
\* 00:00:00.000 for the empty text and the Invalid Date for every other text
EmptyTemplateMatchesEmptyText ==
  (Parsed /\ template = "")
  => /\ parsed.status = "returned"
     /\ dateStr = "" => parsed.date = NewDate(thisYear, 0, 1, 0, 0, 0, 0)
     /\ dateStr # "" => parsed.date = InvalidDate

EmptyTemplateWitness ==
  /\ pc = "parsed"
  /\ template = ""
  /\ dateStr = ""
  /\ parsed.match = << "", << >> >>
  /\ parsed.date.valid
  /\ parsed.date.year = thisYear

\* the number of entries the three caches hold
EntryCount(c) ==
  Cardinality(DOMAIN c.formatterCache) + Cardinality(DOMAIN c.monthNamesCache)
    + Cardinality(DOMAIN c.dayNamesCache)

\* a step keeps every entry with the very object it held
EntriesKept ==
  \A c \in DOMAIN caches : \A k \in DOMAIN caches[c] :
    k \in DOMAIN caches'[c] /\ caches'[c][k] = caches[c][k]

\* the last call of a caching function made in the step returned the object
\* the cache held for its key before the step, when it held one
CachedValueReturned ==
  (calls' # calls /\ inv'[1].op # "") =>
    (CacheKey(inv'[1].op, inv'[1].arg) \in DOMAIN caches[CacheOf(inv'[1].op)] =>
       /\ inv'[1].hit
       /\ inv'[1].result =
            << caches[CacheOf(inv'[1].op)][CacheKey(inv'[1].op, inv'[1].arg)] >>)

\* a step builds an object only for a key that had no entry: as many objects
\* are built as entries are added
BuiltOnlyOnce == nextId' - nextId = EntryCount(caches') - EntryCount(caches)

\* C19: across any sequence of format and parse calls the caches are
\* append-only: an entry once inserted is never removed or replaced, a later
\* call with the same key returns the very same cached object, and a formatter
\* or name table is never built a second time for a key that has an entry.
CachesAppendOnly ==
  [][EntriesKept /\ CachedValueReturned /\ BuiltOnlyOnce]_vars

\* after other calls filled the caches, a parse for id-ID found the month name
\* table an earlier call had built
CacheHitWitness ==
  /\ calls = MaxCalls
  /\ inv[1].op = "getMonthNamesMap" /\ inv[1].arg.locale = "id-ID"
  /\ inv[1].hit
  /\ inv[1].result[1].id < nextId - 1
  /\ DOMAIN caches.formatterCache # {}

\* what an object holds, apart from which object it is
Content(v) == [v EXCEPT !.id = 0]

\* the invocations p and q have returned, were made for the same key of the
\* same cache, and both found no entry
BothMissed(p, q) ==
  /\ p # q
  /\ inv[p].pc = "done" /\ inv[q].pc = "done"
  /\ inv[p].op = inv[q].op
  /\ KeyOf(inv[p]) = KeyOf(inv[q])
  /\ ~inv[p].hit /\ ~inv[q].hit

\* C20: when two invocations look up the same key and both miss before either
\* inserts, both return equal values, and the cache then holds for the key an
\* entry equal to what the function builds from the key, whichever insert
\* was last.
RaceToPopulateHarmless ==
  \A p \in Procs, q \in Procs :
    BothMissed(p, q) =>
      /\ Content(inv[p].result[1]) = Content(inv[q].result[1])
      /\ KeyOf(inv[p]) \in DOMAIN caches[CacheOf(inv[p].op)]
      /\ Content(caches[CacheOf(inv[p].op)][KeyOf(inv[p])])
           = Content(NewValue(inv[p].op, inv[p].arg, 0))
      /\ Content(caches[CacheOf(inv[p].op)][KeyOf(inv[p])])
           = Content(NewValue(inv[q].op, inv[q].arg, 0))

\* both invocations missed the month names of id-ID, the first built its
\* table first and inserted it last
RaceWitness ==
  /\ BothMissed(1, 2)
  /\ inv[1].op = "getMonthNamesMap" /\ inv[1].arg.locale = "id-ID"
  /\ inv[1].result[1].id < inv[2].result[1].id
  /\ caches.monthNamesCache["id-ID"] = inv[1].result[1]

\* a call of formatStr has been made; formatted is its outcome for input
Formatted == pc \in {"formatted", "reformatted", "roundtrip reformatted"}

\* C21: for a locale tag the environment has no names for, malformed tags
\* included, formatStr and parse end as they do for the default locale: they
\* do not fail because of the tag and use the default names.
LocaleDegradesToDefault ==
  locale \notin SupportedLocales =>
    /\ Formatted => formatted = formatStr(input, template, DefaultLocale)
    /\ Parsed => parsed = parse(dateStr, template, DefaultLocale, thisYear)

\* the same for the tags that are well-formed
UnsupportedLocaleDegrades ==
  IsStructurallyValidLanguageTag(locale) => LocaleDegradesToDefault

\* a step leaves every Date that exists with its time value
DatesKept ==
  \A r \in 1..Len(heap.dates) : heap'.dates[r] = heap.dates[r]

\* the Date a step returned is none that existed and has the value v
FreshDate(ref) == ref \notin 1..Len(heap.dates)

\* every wrapper has the value it was created with
WrappersKeepValue(h) ==
  \A w \in 1..Len(h.wrappers) : ValueOf(h, w) = h.wrappers[w].created

\* C22: no call of the library changes the time value of a Date; toDate,
\* clone, add with any unit, subtract, startOf and endOf return an object that
\* is not their input; the methods of a wrapper return new wrappers and date()
\* a fresh copy; and a wrapper keeps the value it was created with whatever is
\* called on it and whatever the caller does to the Dates it holds.
LibraryKeepsDates ==
  [][/\ frame'.op # "setTime" => DatesKept
     /\ frame'.op \in DateFunctions =>
          frame'.result # frame'.input /\ FreshDate(frame'.result)
     /\ frame'.op = "date" =>
          /\ FreshDate(frame'.result)
          /\ heap'.dates[frame'.result] = ValueOf(heap, frame'.input)
     /\ frame'.op \in {"d", "wrapper"} => frame'.wrapper > Len(heap.wrappers)
     /\ WrappersKeepValue(heap')]_vars

\* the caller has changed every Date it holds, the one it wrapped first and
\* the copies it was given, and then called a method of the wrapper with a
\* unit the function does not know
ChangedDatesWitness ==
  /\ frame.op = "wrapper"
  /\ Len(heap.wrappers) >= 2
  /\ \A r \in heap.held : heap.dates[r] # heap.wrappers[1].created
  /\ heap.wrappers[2].created = heap.wrappers[1].created

\* the calendar: leap years and the number of days of a month, month 0-based
IsLeap(y) == (y % 4 = 0 /\ y % 100 # 0) \/ y % 400 = 0

DaysIn(y, m) ==
  IF m = 1 THEN (IF IsLeap(y) THEN 29 ELSE 28)
  ELSE IF m \in {3, 5, 8, 10} THEN 30 ELSE 31

\* r is at the time of day of d
SameTimeOfDay(d, r) ==
  /\ r.hours = d.hours /\ r.minutes = d.minutes
  /\ r.seconds = d.seconds /\ r.ms = d.ms

\* r is d moved by n months: in the month n months after that of d, on the
\* day of d or the last day of the month, at the time of day of d
MovedByMonths(d, n, r) ==
  /\ r.valid
  /\ r.year * 12 + r.month = d.year * 12 + d.month + n
  /\ r.date = (IF d.date < DaysIn(r.year, r.month) THEN d.date
               ELSE DaysIn(r.year, r.month))
  /\ SameTimeOfDay(d, r)

\* the call of add the frame holds moved its input by the months asked for
AddClamps ==
  frame.op = "add" =>
    MovedByMonths(frame.input,
                  IF frame.unit = "year" THEN 12 * frame.amount ELSE frame.amount,
                  frame.result)

\* C23: add(d, n, 'month') lies in the month n months after that of d, on the
\* day of d clamped to the length of that month and at the same time of day;
\* add(d, n, 'year') keeps the month and clamps February 29 in a target year
\* that is not a leap year.
MonthAndYearAdditionClamp == AddClamps

\* the same while no year from 0 to 99 is given to new Date
AddClampsOutsideFirstCentury ==
  (/\ frame.op = "add"
   /\ frame.input.year \notin 0..99
   /\ (frame.unit = "year" => frame.input.year + frame.amount \notin 0..99)
   /\ (frame.unit = "month" => frame.result.year \notin 0..99)) => AddClamps

\* C24: weekOfYear returns a value from 1 to 53 for every valid date and time
\* of day, and 1 for January 1 at every time of that day.
WeekOfYearInRange ==
  (frame.op = "weekOfYear" /\ frame.input.valid) =>
    /\ frame.result \in 1..53
    /\ (frame.input.month = 0 /\ frame.input.date = 1) => frame.result = 1

\* the located tokens of the parser as positions and token texts
LocatedPairs(found) ==
  [k \in 1..Len(found) |-> [pos |-> found[k].pos, token |-> found[k].def.token]]

\* C25: formatStr and parse tokenize a template alike: the positions and
\* tokens formatStr substitutes in its scan from the left are the located
\* tokens of the parser in the order of their positions, for runs of a token
\* letter of any length too.
TokenizeAlike ==
  (Formatted \/ Parsed) =>
    Substitutions(template, 1, FormatPattern)
      = LocatedPairs(foundTokens(template, locale))

\* parse located a token of four letters and one of two in a run of six
RunOfSixWitness ==
  /\ template = "MMMMMM"
  /\ parsed.status = "returned"
  /\ LocatedPairs(parsed.foundTokens)
       = << [pos |-> 0, token |-> "MMMM"], [pos |-> 4, token |-> "MM"] >>

(***************************************************************************)
(* C26: business-day walks terminate                                       *)
(***************************************************************************)
Walks == {"nextBusinessDay", "prevBusinessDay", "addBusinessDays"}

\* a walk is in its loop
Walking == frame.op \in Walks /\ frame.pc = "loop"

\* a walk has returned
Walked == frame.op \in Walks /\ frame.pc = "done"

\* some day of the week is not in weekendDays
HasWorkingDay(options) == \E wd \in 0..6 : ~Includes(options.weekendDays, wd)

\* a walk that returned for a count other than zero returned a business day
ReturnedDayIsBusinessDay ==
  Walked /\ frame.days # 0 => isBusinessDay(frame.result, frame.options)

\* C26: for every input date, every options value and every integer count,
\* nextBusinessDay, prevBusinessDay and addBusinessDays eventually return, and
\* what they return for a count other than zero is a business day under the
\* options
BusinessDayWalksTerminate ==
  /\ Walking ~> Walked
  /\ []ReturnedDayIsBusinessDay

\* with options that leave a working day of the week, the walks return
WalksTerminateWithWorkingDay ==
  (Walking /\ HasWorkingDay(frame.options)) ~> Walked

\* a walk from a valid Date under options without a working day never
\* returns from its loop once it has entered it
WalkWithoutWorkingDayGoesOn ==
  [][/\ Walking /\ WalkGoesOn(frame)
     /\ ~HasWorkingDay(frame.options) /\ frame.input.valid
     => Walking' /\ WalkGoesOn(frame')]_vars

\* only a walk under options without a working day leaves the window
WindowHoldsWalks == frame.op # "" /\ frame.wrapped => ~HasWorkingDay(frame.options)

(***************************************************************************)
(* C27: business-day add and diff are consistent                           *)
(***************************************************************************)
\* a function has returned to a caller who gave a valid Date and options
\* that leave a working day
ReturnedTo(op) ==
  /\ frame.op = op /\ frame.pc = "done"
  /\ frame.input.valid /\ HasWorkingDay(frame.options)

\* diffInBusinessDays(a, addBusinessDays(a, n, options), options) = n
DiffGivesBackCount ==
  ReturnedTo("diffInBusinessDays") => frame.difference = frame.days

\* addBusinessDays(a, 0, options) is a
AddOfZeroIsSame ==
  ReturnedTo("addBusinessDays") /\ frame.days = 0 =>
    SameTime(frame.result, frame.input)

\* subBusinessDays(a, n, options) is addBusinessDays(a, -n, options); days is
\* the -n that subBusinessDays passed on
SubIsAddOfNegated ==
  ReturnedTo("addBusinessDays") /\ frame.caller = "subBusinessDays" =>
    frame.result = addBusinessDays(frame.input, frame.days, frame.options)

\* C27: for every valid date a, every count n and every options value with a
\* working day of the week, diffInBusinessDays(a, addBusinessDays(a, n)) is n,
\* addBusinessDays(a, 0) is a even when a is not a business day, and
\* subBusinessDays(a, n) is addBusinessDays(a, -n)
BusinessAddAndDiffConsistent ==
  /\ DiffGivesBackCount
  /\ AddOfZeroIsSame
  /\ SubIsAddOfNegated

\* a negative count from a day that is not a business day, over holidays,
\* came back from diffInBusinessDays
NegativeCountCameBack ==
  /\ ReturnedTo("diffInBusinessDays")
  /\ frame.days = -3 /\ frame.difference = -3
  /\ Len(frame.options.holidays) > 0
  /\ ~isBusinessDay(frame.input, frame.options)
  /\ frame.count = 3

\* addBusinessDays returned for 0 days from a day that is not a business day
ZeroFromWeekendWitness ==
  /\ ReturnedTo("addBusinessDays") /\ frame.days = 0
  /\ ~isBusinessDay(frame.input, frame.options)

(***************************************************************************)
(* C28: d(input) wraps the given instant                                   *)
(***************************************************************************)
\* two time values are the same number, or both NaN
SameTimeValue(a, b) == a = b

\* d was called with an input
CalledDWith == frame.op = "d" /\ frame.input.kind # "undefined"

\* C28: for every input that was given, a Date, a string or a number, 0 and
\* negative numbers included, d(input).valueOf() is toDate(input).getTime();
\* the current time is used only when the argument is left out
DWrapsGivenInstant ==
  CalledDWith => SameTimeValue(frame.result, toDateInput(frame.input))

\* d() keeps the current time
DWithoutInputIsNow ==
  frame.op = "d" /\ frame.input.kind = "undefined" => frame.result = frame.now

\* for every input that is not 0, NaN or the empty string
DWrapsTruthyInput ==
  CalledDWith /\ Truthy(frame.input) =>
    SameTimeValue(frame.result, toDateInput(frame.input))

\* d(0) gave the current time
DOfZeroIsNow ==
  /\ frame.op = "d" /\ frame.input = NumberValue(0)
  /\ frame.result = frame.now
  /\ toDateInput(frame.input) = NewDate(1970, 0, 1, 0, 0, 0, 0)

(***************************************************************************)
(* C29: the components of a duration recompose to the total                *)
(***************************************************************************)
\* the whole days and the milliseconds under a day that the components of r
\* stand for
ComponentDays(r) == r.years * 365 + r.months * 30 + r.weeks * 7 + r.days

ComponentMs(r) ==
  r.hours * 3600000 + r.minutes * 60000 + r.seconds * 1000 + r.milliseconds

\* the components under a day are within the ranges of their units
SmallComponentsInRange(r) ==
  /\ r.hours \in 0..23 /\ r.minutes \in 0..59
  /\ r.seconds \in 0..59 /\ r.milliseconds \in 0..999

\* months, weeks and days are within range and stay under a year together
LargeComponentsInRange(r) ==
  /\ r.years >= 0 /\ r.months \in 0..12 /\ r.weeks \in 0..4 /\ r.days \in 0..6
  /\ r.months * 30 + r.weeks * 7 + r.days < 365

\* C29: for every count t >= 0 of milliseconds the components of duration(t)
\* add up to t, months, weeks and days staying under 365 days together and
\* each smaller component within the range of its unit
DurationRecomposes ==
  frame.op = "duration" =>
    /\ ComponentDays(frame.result) = frame.days
    /\ ComponentMs(frame.result) = frame.ms
    /\ SmallComponentsInRange(frame.result)
    /\ LargeComponentsInRange(frame.result)

\* the part under a day recomposes, and every component is in range
DurationRecomposesUnderADay ==
  frame.op = "duration" =>
    /\ ComponentMs(frame.result) = frame.ms
    /\ SmallComponentsInRange(frame.result)
    /\ LargeComponentsInRange(frame.result)

\* under 30 days the whole duration recomposes
DurationRecomposesUnderAMonth ==
  frame.op = "duration" /\ frame.days < 30 =>
    ComponentDays(frame.result) = frame.days

\* duration(3661000) is 1 hour, 1 minute and 1 second
DurationExample ==
  frame.op = "duration" /\ frame.days = 0 /\ frame.ms = 3661000 =>
    frame.result = [years |-> 0, months |-> 0, weeks |-> 0, days |-> 0,
                    hours |-> 1, minutes |-> 1, seconds |-> 1,
                    milliseconds |-> 0]

\* duration of 30 days came out as 1 month and 2 days
ThirtyDaysWitness ==
  /\ frame.op = "duration" /\ frame.days = 30 /\ frame.ms = 0
  /\ frame.result.months = 1 /\ frame.result.days = 2

(***************************************************************************)
(* C30: the days of an interval                                            *)
(***************************************************************************)
\* eachDay() of an interval with valid start and end
EachDayCalled == frame.op = "eachDay" /\ frame.start.valid /\ frame.end.valid

\* the generator of eachDay() is done
EachDayDone == frame.op = "eachDay" /\ frame.pc = "done"

\* the days from that of start to that of end: 0 or negative when the day of
\* start is after that of end
DaysToYield(f) == DaysApart(f.start, f.end) + 1

\* what was yielded, each as it was when it was yielded
YieldedValues(f) == [i \in 1..Len(f.yielded) |-> f.yielded[i].value]

\* the local midnights from that of start on, one for every day
Midnights(f, n) == [i \in 1..n |-> PlusTime(startOf(f.start, "day"), i - 1, 0)]

\* what was yielded so far are the midnights from the day of start on, one per
\* day, none after the day of end; with the generator done they are all of
\* them, so that the last is startOf(end, 'day'), and none when the day of
\* start is after the day of end
YieldsEachDay ==
  EachDayCalled =>
    /\ YieldedValues(frame) = Midnights(frame, Len(frame.yielded))
    /\ Len(frame.yielded) <= DaysToYield(frame) \/ Len(frame.yielded) = 0
    /\ frame.pc = "done" =>
         /\ Len(frame.yielded) = (IF DaysToYield(frame) > 0
                                  THEN DaysToYield(frame) ELSE 0)
         /\ Len(frame.yielded) > 0 =>
              /\ frame.yielded[1].value = startOf(frame.start, "day")
              /\ frame.yielded[Len(frame.yielded)].value =
                   startOf(frame.end, "day")

\* what was yielded is strictly increasing
YieldsIncrease ==
  EachDayCalled =>
    \A i \in 1..Len(frame.yielded), j \in 1..Len(frame.yielded) :
      i < j => TimeBefore(frame.yielded[i].value, frame.yielded[j].value)

\* every yielded Date is an object of its own: none is another yielded Date,
\* nor a Date the interval or the generator keeps
YieldsFreshDates ==
  EachDayCalled =>
    \A i \in 1..Len(frame.yielded) :
      /\ frame.yielded[i].ref \notin {frame.s, frame.e, frame.current, frame.endDay}
      /\ \A j \in 1..Len(frame.yielded) :
           i # j => frame.yielded[i].ref # frame.yielded[j].ref

NothingYieldedWitness ==
  /\ EachDayCalled /\ frame.pc = "done"
  /\ DaysToYield(frame) <= 0 /\ Len(frame.yielded) = 0

=============================================================================
